---- MODULE Spec2Model ----
(***************************************************************************)
(* The AMP connection engine of amp-async (amp-async/src/server.rs): the   *)
(* read loop, the write loop, the reply-map, the request senders and the   *)
(* Handle, together with the frame classifier (src/frame.rs) and the       *)
(* one-shot ReplyTicket of the channel-based server (src/server.rs).       *)
(*                                                                         *)
(* Byte strings are sequences of byte values; a box (RawFrame) is a        *)
(* function from key names to byte strings.                                *)
(***************************************************************************)
EXTENDS Integers, Sequences, FiniteSets, TLC

(***************************************************************************)
(* Bounds of the model.                                                    *)
(***************************************************************************)
\* application tasks that may call call_remote / call_remote_noreply
MaxCalls == 2
\* inbound requests the peer may send
MaxInbound == 1
\* depth of the bounded channels as modelled (QUEUE_DEPTH is 32 in the code)
QueueDepth == 2
\* partial writes the output stream needs for one frame
FrameParts == 2
\* calls the sequential client of SpecSeq issues
MaxSeqCalls == 17
\* tagged requests the channel-based server hands to its application
MaxTickets == 2
\* the radix of the digits of a length prefix and of every byte of an
\* encoded stream (256 in the source)
LenRadix == 2
\* pairs in the boxes that are encoded and decoded
MaxPairs == 2
\* boxes on one stream
MaxFrames == 2
\* items in an AmpList
MaxItems == 2
\* bytes given to from_bytes
MaxBytes == 9

Tasks == 1..MaxCalls
Inbound == 1..MaxInbound
TicketIds == 1..MaxTickets

(***************************************************************************)
(* Option<T>: None is the empty tuple, Some(v) the one-element tuple.      *)
(***************************************************************************)
None == <<>>
Some(v) == <<v>>
IsSome(o) == o /= <<>>
Unwrap(o) == o[1]

(***************************************************************************)
(* Byte strings used by the code.                                          *)
(***************************************************************************)
\* "UNHANDLED"
UNHANDLED == <<85, 78, 72, 65, 78, 68, 76, 69, 68>>
\* "Sum"
CmdSum == <<83, 117, 109>>
\* a lone 0xff byte: not valid UTF-8
BadUtf8 == <<255>>
\* "23"
Tag23 == <<50, 51>>

\* std::str::from_utf8 on the byte strings of the model: ASCII is valid, a
\* lone byte >= 0x80 is not.
IsUtf8(b) == \A i \in 1..Len(b) : b[i] < 128

(***************************************************************************)
(* format!("{:x}", seqno): lowercase hexadecimal without leading zeros.    *)
(***************************************************************************)
\* uppercase digits, as format!("{:X}") would give: C6 depends on the case
HexDigitUpper(d) == IF d < 10 THEN 48 + d ELSE 55 + d

HexDigit(d) == IF d < 10 THEN 48 + d ELSE 87 + d

RECURSIVE ToHex(_)
ToHex(n) == IF n < 16 THEN <<HexDigit(n)>>
            ELSE ToHex(n \div 16) \o <<HexDigit(n % 16)>>

(***************************************************************************)
(* u64::from_str_radix(tag_str, 16): an optional leading '+', then at      *)
(* least one digit 0-9, a-f or A-F; a value that does not fit 64 bits      *)
(* (more than 16 digits after the leading zeros) is an error.  Applied     *)
(* only after from_utf8 succeeded.                                         *)
(***************************************************************************)
DigitVal(b) == IF b >= 48 /\ b <= 57 THEN b - 48
               ELSE IF b >= 97 /\ b <= 102 THEN b - 87
               ELSE IF b >= 65 /\ b <= 70 THEN b - 55
               ELSE -1

RECURSIVE DigitsValue(_, _)
DigitsValue(s, acc) == IF s = <<>> THEN acc
                       ELSE DigitsValue(Tail(s), acc * 16 + DigitVal(Head(s)))

RECURSIVE StripZeros(_)
StripZeros(s) == IF s /= <<>> /\ Head(s) = 48 THEN StripZeros(Tail(s)) ELSE s

\* hexadecimal digits in a u64
U64HexDigits == 16

\* a parser that accepts only the text format!("{:x}") produces: C8
\* depends on what from_str_radix accepts
FromStrRadix16Strict(s) ==
    IF s = <<>> \/ \E i \in 1..Len(s) : DigitVal(s[i]) < 0 \/ s[i] \in 65..70
    THEN None
    ELSE IF s[1] = 48 THEN None
    ELSE IF Len(s) > U64HexDigits THEN None
    ELSE Some(DigitsValue(s, 0))

FromStrRadix16(s) ==
    LET digits == IF s /= <<>> /\ s[1] = 43 THEN Tail(s) ELSE s
    IN  IF digits = <<>> \/ \E i \in 1..Len(digits) : DigitVal(digits[i]) < 0
        THEN None
        ELSE IF Len(StripZeros(digits)) > U64HexDigits THEN None
        ELSE Some(DigitsValue(digits, 0))

\* dispatch_frame's lookup key: from_utf8(&tag).ok().and_then(from_str_radix)
TagKey(tag) == IF IsUtf8(tag) THEN FromStrRadix16(tag) ELSE None

(***************************************************************************)
(* Boxes and the frame classifier.                                         *)
(***************************************************************************)
Put(box, k, v) == [x \in DOMAIN box \cup {k} |-> IF x = k THEN v ELSE box[x]]
Remove(box, k) == [x \in DOMAIN box \ {k} |-> box[x]]
EmptyBox == [x \in {} |-> <<>>]

\* a classifier that takes the first marker it finds and does not look
\* for a second one: C21 depends on the check for mixed markers
TryFromRawFrameFirst(frame) ==
    LET has(k) == k \in DOMAIN frame
    IN  IF has("_command")
        THEN [ok |-> TRUE, type |-> "Request",
              command |-> frame["_command"],
              tag |-> IF has("_ask") THEN Some(frame["_ask"]) ELSE None,
              fields |-> Remove(Remove(frame, "_command"), "_ask")]
        ELSE IF has("_answer")
        THEN [ok |-> TRUE, type |-> "Response",
              tag |-> frame["_answer"],
              response |-> [ok |-> TRUE,
                            fields |-> Remove(frame, "_answer")]]
        ELSE IF has("_error")
        THEN IF ~has("_error_code") \/ ~has("_error_description")
             THEN [ok |-> FALSE, err |-> "IncompleteErrorFrame"]
             ELSE [ok |-> TRUE, type |-> "Response",
                   tag |-> frame["_error"],
                   response |-> [ok |-> FALSE,
                                 code |-> frame["_error_code"],
                                 description |-> frame["_error_description"]]]
        ELSE [ok |-> FALSE, err |-> "ConfusedFrame"]

\* TryFrom<RawFrame> for Frame
TryFromRawFrame(frame) ==
    LET has(k) == k \in DOMAIN frame
    IN  IF has("_command")
        THEN IF has("_error") \/ has("_answer")
             THEN [ok |-> FALSE, err |-> "ConfusedFrame"]
             ELSE [ok |-> TRUE, type |-> "Request",
                   command |-> frame["_command"],
                   tag |-> IF has("_ask") THEN Some(frame["_ask"]) ELSE None,
                   fields |-> Remove(Remove(frame, "_command"), "_ask")]
        ELSE IF has("_answer")
        THEN IF has("_error") \/ has("_command")
             THEN [ok |-> FALSE, err |-> "ConfusedFrame"]
             ELSE [ok |-> TRUE, type |-> "Response",
                   tag |-> frame["_answer"],
                   response |-> [ok |-> TRUE,
                                 fields |-> Remove(frame, "_answer")]]
        ELSE IF has("_error")
        THEN IF has("_answer") \/ has("_command")
             THEN [ok |-> FALSE, err |-> "ConfusedFrame"]
             ELSE IF ~has("_error_code") \/ ~has("_error_description")
             THEN [ok |-> FALSE, err |-> "IncompleteErrorFrame"]
             ELSE [ok |-> TRUE, type |-> "Response",
                   tag |-> frame["_error"],
                   response |-> [ok |-> FALSE,
                                 code |-> frame["_error_code"],
                                 description |-> frame["_error_description"]]]
        ELSE [ok |-> FALSE, err |-> "ConfusedFrame"]

(***************************************************************************)
(* amp_serde::to_bytes of the three frame shapes, as the box they encode.  *)
(***************************************************************************)
\* Request { tag, command, fields }
RequestBox(tag, command, fields) ==
    LET b == Put(fields, "_command", command)
    IN  IF IsSome(tag) THEN Put(b, "_ask", Unwrap(tag)) ELSE b

\* OkResponse { tag, fields }
OkResponseBox(tag, fields) == Put(fields, "_answer", tag)

\* ErrorResponse { tag, code, description }
ErrorResponseBox(tag, code, description) ==
    Put(Put(Put(EmptyBox, "_error", tag), "_error_code", code),
        "_error_description", description)

(***************************************************************************)
(* State of one connection (serve, read_loop, write_loop, Handle and the   *)
(* application tasks that hold RequestSender clones).                      *)
(***************************************************************************)
VARIABLES
    writeQ,       \* mpsc channel of WriteCmd: (write_tx, write_rx)
    expectQ,      \* mpsc channel of ExpectReply: (expect_tx, expect_rx)
    confirm,      \* the confirm oneshot of the registration in progress
    reply_map,    \* read_loop's ReplyMap: seqno -> task whose Sender it holds
    inserted,     \* history: the keys reply_map.insert was called with
    seqno,        \* write_loop's tag counter
    wl,           \* where the write loop is
    wlCmd,        \* the WriteCmd the write loop is processing
    wlOut,        \* the serialized frame being written, and how much of it
    wlRes,        \* the write loop's result
    wire,         \* the output stream: the partial writes made so far
    dequeued,     \* history: the commands write_loop received, in order
    rl,           \* where the read loop is
    rlRes,        \* the read loop's result
    handlers,     \* dispatched_requests, one per inbound request
    answered,     \* peer: the tags it has answered
    callPc,       \* per task: where its call_remote is
    callMax,      \* per task: how many calls its program makes
    callNo,       \* per task: how many calls it has started
    callRes,      \* per task: the result of its last completed call
    delivered,    \* per task: what the reply oneshot of its call holds
    handle,       \* Handle: write_loop_handle, shutdown and join's progress
    loopState,    \* LoopState: read_done, write_done
    tickets,      \* the ReplyTickets of the channel-based server
    firstErr      \* history: the error of the loop that returned an error first

\* The inputs and results of the functions that are checked on their own
\* (the frame classifier, the codecs, the serializer): they take no part
\* in a connection, and a connection leaves them alone.
VARIABLES
    rawFrame,     \* a decoded box handed to TryFrom<RawFrame> for Frame
    frameRes,     \* Option of its result
    codecV,       \* the AmpVersion of the serializer and the decoder
    codecIn,      \* the boxes to send, each the sequence of its pairs
    codecPc,      \* "idle", "input" (boxes chosen), "stream" (encoded)
    stream,       \* the encoded bytes the reader has not yet read
    buf,          \* FramedRead's buffer, the argument of Dec::decode
    readable,     \* FramedRead: the buffer got bytes since decode said None
    dec,          \* Dec: state, key, value, frame and its LengthDelimitedCodec
    decOut,       \* the frames Dec::decode has returned
    decErr,       \* Dec::decode has returned an error
    serV,         \* amp-serde: the AmpEncoder version of to_bytes
    serTy,        \* the type asked of from_bytes
    serVal,       \* the value given to to_bytes
    serBytes,     \* the bytes to_bytes returned, the bytes given to from_bytes
    serRes,       \* Option of the result of from_bytes
    serPc,        \* "idle", "value" (to be serialized), "bytes", "done"
    dispatch      \* src/server.rs: the dispatch channel and its read loop

frameVars == <<rawFrame, frameRes>>
codecVars == <<codecV, codecIn, codecPc, stream, buf, readable, dec, decOut, decErr>>
serdeVars == <<serV, serTy, serVal, serBytes, serRes, serPc>>
\* what stands beside the engine: the classifier, the codecs, amp-serde and
\* the dispatch channel of the channel-based server
sideVars == <<frameVars, codecVars, serdeVars, dispatch>>

connVars == <<writeQ, expectQ, confirm, reply_map, seqno, wl, wlCmd, wlOut, wlRes,
              wire, dequeued, rl, rlRes, handlers, answered, callMax, callPc,
              callNo, callRes, delivered, handle, loopState, inserted, tickets,
              firstErr>>

vars == <<connVars, sideVars>>

wlVars == <<wl, wlCmd, wlOut, wlRes>>
rlVars == <<rl, rlRes, reply_map, handlers>>
callVars == <<callMax, callPc, callNo, callRes, delivered>>

NoCmd == [type |-> "None"]
NoOut == [id |-> <<"none", 0, 0>>, part |-> 0, box |-> EmptyBox]
NoResult == [kind |-> "None"]
ErrResult(e) == [kind |-> "Err", err |-> e]
NoTicket == [st |-> "none", tag |-> None, frame |-> EmptyBox, res |-> "None"]

\* serve(): both channels empty, both loops spawned, the Handle holding
\* write_tx and shutdown_tx.
Serve ==
    /\ writeQ = <<>>
    /\ expectQ = <<>>
    /\ confirm = "none"
    /\ reply_map = EmptyBox
    /\ inserted = {}
    /\ seqno = 0
    /\ wl = "recv"
    /\ wlCmd = NoCmd
    /\ wlOut = NoOut
    /\ wlRes = "None"
    /\ wire = <<>>
    /\ dequeued = <<>>
    /\ rl = "select"
    /\ rlRes = "None"
    /\ handlers = [i \in Inbound |-> [st |-> "unsent", req |-> None, res |-> "None"]]
    /\ answered = {}
    /\ callPc = [c \in Tasks |-> "idle"]
    /\ callNo = [c \in Tasks |-> 0]
    /\ callRes = [c \in Tasks |-> NoResult]
    /\ delivered = [c \in Tasks |-> None]
    /\ handle = [write_loop_handle |-> TRUE, shutdown |-> "open",
                 join |-> "idle", joinRes |-> "None", shutdownCalled |-> FALSE]
    /\ loopState = [read_done |-> FALSE, write_done |-> FALSE]
    /\ tickets = [i \in TicketIds |-> NoTicket]
    /\ firstErr = "None"

\* every task's program makes one call
\* no box is being classified
FrameIdle ==
    /\ rawFrame = EmptyBox
    /\ frameRes = None

\* nothing is being encoded or decoded
CodecIdle ==
    /\ codecV = "V1"
    /\ codecIn = <<>>
    /\ codecPc = "idle"
    /\ stream = <<>>
    /\ buf = <<>>
    /\ readable = FALSE
    /\ dec = [state |-> "Key"]
    /\ decOut = <<>>
    /\ decErr = FALSE

\* nothing is being serialized or deserialized
SerdeIdle ==
    /\ serV = "V1"
    /\ serTy = "Unit"
    /\ serVal = <<>>
    /\ serBytes = <<>>
    /\ serRes = None
    /\ serPc = "idle"

\* the application holds the receiver of the dispatch channel and the
\* read loop of src/server.rs runs; lost are the requests whose send to the
\* application failed
DispatchOpen == dispatch = [rx |-> "open", read_loop |-> "running", lost |-> {}]

\* nothing is being classified, encoded or decoded
SideIdle ==
    /\ FrameIdle
    /\ CodecIdle
    /\ SerdeIdle
    /\ DispatchOpen

Init ==
    /\ Serve
    /\ callMax = [c \in Tasks |-> 1]
    /\ SideIdle

\* task 1 is a sequential client making MaxSeqCalls calls
InitSeq ==
    /\ Serve
    /\ callMax = [c \in Tasks |-> IF c = 1 THEN MaxSeqCalls ELSE 1]
    /\ SideIdle

\* the write loop's Receiver (write_rx) has been dropped
WriteRxDropped == wl = "done"
\* the read loop's locals (expect_rx, reply_map, write_tx, the dispatched
\* futures) have been dropped
ReadLoopDropped == rl = "done"

\* task c holds a RequestSender: each task got its clone from
\* Handle::request_sender when the connection started and owns it until its
\* program ends, after its last call or earlier (TaskQuit)
HoldsSender(c) ==
    \/ callPc[c] = "wait"
    \/ callPc[c] = "idle" /\ callNo[c] < callMax[c]

\* a Sender<WriteCmd> exists: the Handle's, the read loop's, or a clone held
\* by an application task
WriteSenders ==
    \/ handle.write_loop_handle
    \/ ~ReadLoopDropped
    \/ \E c \in Tasks : HoldsSender(c)

\* the oneshot Sender<Response> of task c's call is held somewhere
SenderAlive(c) ==
    \/ \E i \in 1..Len(writeQ) :
          writeQ[i].type = "Request" /\ writeQ[i].task = c /\ writeQ[i].reply
    \/ \E i \in 1..Len(expectQ) : expectQ[i].task = c
    \/ \E k \in DOMAIN reply_map : reply_map[k] = c

(***************************************************************************)
(* RequestSender: call_remote and call_remote_noreply.                     *)
(***************************************************************************)
\* the fields of the requests the application sends: Sum { a: 1 }
SumFields == [x \in {"a"} |-> <<49>>]

\* WriteCmd::Request(frame, reply): the frame-maker closure and, for
\* call_remote, the oneshot Sender.  serOk: whether to_bytes will succeed
\* on the request value when the closure is called.
RequestCmd(c, n, reply, serOk) ==
    [type |-> "Request", id |-> <<"call", c, n>>, task |-> c,
     reply |-> reply, serOk |-> serOk]

\* self.0.send(WriteCmd::Request(frame, ..)).await?  A send on a full
\* channel waits; a waiting sender is a task that has not sent yet.
CallRemote(c, reply, serOk) ==
    /\ callPc[c] = "idle"
    /\ callNo[c] < callMax[c]
    /\ callNo' = [callNo EXCEPT ![c] = @ + 1]
    /\ delivered' = [delivered EXCEPT ![c] = None]
    /\ IF WriteRxDropped
       THEN /\ callRes' = [callRes EXCEPT ![c] = ErrResult("SendError")]
            /\ UNCHANGED <<writeQ, callPc>>
       ELSE /\ Len(writeQ) < QueueDepth
            /\ writeQ' = Append(writeQ, RequestCmd(c, callNo[c] + 1, reply, serOk))
            /\ IF reply
               THEN /\ callPc' = [callPc EXCEPT ![c] = "wait"]
                    /\ callRes' = [callRes EXCEPT ![c] = NoResult]
               ELSE /\ callRes' = [callRes EXCEPT ![c] = [kind |-> "Unit"]]
                    /\ UNCHANGED callPc
    /\ UNCHANGED <<tickets, inserted, expectQ, confirm, seqno, wlVars, wire, dequeued, rlVars,
                   answered, callMax, handle, loopState, firstErr>>
    /\ UNCHANGED sideVars

\* rx.await?.map_err(Error::Remote)?: the response the read loop sent, or
\* RecvError once the Sender was dropped without a value.  The task is
\* then ready for its next call.
CallResult(response) ==
    IF response.ok
    THEN [kind |-> "Ok", fields |-> response.fields]
    ELSE [kind |-> "Remote", code |-> response.code,
          description |-> response.description]

CallComplete(c) ==
    /\ callPc[c] = "wait"
    /\ IF IsSome(delivered[c])
       THEN callRes' = [callRes EXCEPT ![c] = CallResult(Unwrap(delivered[c]))]
       ELSE /\ ~SenderAlive(c)
            /\ callRes' = [callRes EXCEPT ![c] = ErrResult("RecvError")]
    /\ callPc' = [callPc EXCEPT ![c] = "idle"]
    /\ UNCHANGED <<tickets, inserted, writeQ, expectQ, confirm, seqno, wlVars, wire, dequeued,
                   rlVars, answered, callMax, callNo, delivered, handle,
                   loopState, firstErr>>
    /\ UNCHANGED sideVars

\* the caller drops the future of its call_remote while it waits at
\* rx.await: the receiver of its oneshot is dropped, and the task ends
CallAbandon(c) ==
    /\ callPc[c] = "wait"
    /\ callPc' = [callPc EXCEPT ![c] = "abandoned"]
    /\ UNCHANGED <<tickets, inserted, writeQ, expectQ, confirm, seqno, wlVars, wire, dequeued,
                   rlVars, answered, callMax, callNo, callRes, delivered,
                   handle, loopState, firstErr>>
    /\ UNCHANGED sideVars

\* the task's program ends before its last call: its RequestSender is
\* dropped
TaskQuit(c) ==
    /\ callPc[c] = "idle"
    /\ callNo[c] < callMax[c]
    /\ callPc' = [callPc EXCEPT ![c] = "quit"]
    /\ UNCHANGED <<tickets, inserted, writeQ, expectQ, confirm, seqno, wlVars, wire, dequeued,
                   rlVars, answered, callMax, callNo, callRes, delivered,
                   handle, loopState, firstErr>>
    /\ UNCHANGED sideVars

(***************************************************************************)
(* write_loop.                                                             *)
(***************************************************************************)
\* history of the loops' results: the first result that is an error
FirstError(res) ==
    IF firstErr = "None" /\ res /= "Ok" THEN res ELSE firstErr

\* the loop returns: its locals (write_rx with the queued commands,
\* expect_tx, the command in hand) are dropped; the spawned task stores
\* write_done and completes with the result (no await in between)
WlReturn(res) ==
    /\ wl' = "done"
    /\ wlRes' = res
    /\ wlCmd' = NoCmd
    /\ wlOut' = NoOut
    /\ writeQ' = <<>>
    /\ loopState' = [loopState EXCEPT !.write_done = TRUE]
    /\ firstErr' = FirstError(res)

\* a write loop that takes a reply while a frame is being written: C7
\* depends on the loop finishing a frame before it receives again
WlRecvReplyEarly ==
    /\ wl \in {"recv", "output"}
    /\ writeQ /= <<>>
    /\ Head(writeQ).type = "Reply"
    /\ writeQ' = Tail(writeQ)
    /\ dequeued' = Append(dequeued, Head(writeQ).id)
    /\ wl' = "output"
    /\ wlCmd' = Head(writeQ)
    /\ wlOut' = [id |-> Head(writeQ).id, part |-> 0, box |-> Head(writeQ).frame]
    /\ UNCHANGED <<tickets, inserted, expectQ, confirm, seqno, wlRes, wire,
                   rlVars, answered, callVars, handle, loopState, firstErr>>
    /\ UNCHANGED sideVars

\* input.recv() yields WriteCmd::Reply(frame)
WlRecvReply ==
    /\ wl = "recv"
    /\ writeQ /= <<>>
    /\ Head(writeQ).type = "Reply"
    /\ writeQ' = Tail(writeQ)
    /\ dequeued' = Append(dequeued, Head(writeQ).id)
    /\ wl' = "output"
    /\ wlCmd' = Head(writeQ)
    /\ wlOut' = [id |-> Head(writeQ).id, part |-> 0, box |-> Head(writeQ).frame]
    /\ UNCHANGED <<tickets, inserted, expectQ, confirm, seqno, wlRes, wire, rlVars, answered,
                   callVars, handle, loopState, firstErr>>
    /\ UNCHANGED sideVars

\* a write loop that gives every request a tag: C18 depends on the
\* counter and the tag being left alone when there is no reply sender
WlRecvNoReplyTagged ==
    /\ wl = "recv"
    /\ writeQ /= <<>>
    /\ Head(writeQ).type = "Request"
    /\ ~Head(writeQ).reply
    /\ dequeued' = Append(dequeued, Head(writeQ).id)
    /\ seqno' = seqno + 1
    /\ writeQ' = Tail(writeQ)
    /\ wl' = "output"
    /\ wlCmd' = Head(writeQ)
    /\ wlOut' = [id |-> Head(writeQ).id, part |-> 0,
                 box |-> RequestBox(Some(ToHex(seqno + 1)), CmdSum, SumFields)]
    /\ UNCHANGED <<wlRes, loopState, firstErr>>
    /\ UNCHANGED <<tickets, inserted, expectQ, confirm, wire, rlVars, answered, callVars,
                   handle>>
    /\ UNCHANGED sideVars

\* input.recv() yields WriteCmd::Request(request, None): no tag, the frame
\* is made and written
WlRecvNoReply ==
    /\ wl = "recv"
    /\ writeQ /= <<>>
    /\ Head(writeQ).type = "Request"
    /\ ~Head(writeQ).reply
    /\ dequeued' = Append(dequeued, Head(writeQ).id)
    /\ IF Head(writeQ).serOk
       THEN /\ writeQ' = Tail(writeQ)
            /\ wl' = "output"
            /\ wlCmd' = Head(writeQ)
            /\ wlOut' = [id |-> Head(writeQ).id, part |-> 0,
                         box |-> RequestBox(None, CmdSum, SumFields)]
            /\ UNCHANGED <<wlRes, loopState, firstErr>>
       ELSE WlReturn("Serde")
    /\ UNCHANGED <<tickets, inserted, expectQ, confirm, seqno, wire, rlVars, answered, callVars,
                   handle>>
    /\ UNCHANGED sideVars

\* a write loop that goes on when the registration cannot be sent
WlRecvRequestSendIgnored ==
    /\ wl = "recv"
    /\ writeQ /= <<>>
    /\ Head(writeQ).type = "Request"
    /\ Head(writeQ).reply
    /\ dequeued' = Append(dequeued, Head(writeQ).id)
    /\ seqno' = seqno + 1
    /\ IF ReadLoopDropped
       THEN /\ confirm' = "dropped"
            /\ UNCHANGED expectQ
       ELSE /\ Len(expectQ) < QueueDepth
            /\ expectQ' = Append(expectQ, [tag |-> seqno + 1,
                                           task |-> Head(writeQ).task])
            /\ confirm' = "pending"
    /\ writeQ' = Tail(writeQ)
    /\ wl' = "confirm"
    /\ wlCmd' = Head(writeQ)
    /\ UNCHANGED <<wlOut, wlRes, loopState, firstErr>>
    /\ UNCHANGED <<tickets, inserted, wire, rlVars, answered, callVars, handle>>
    /\ UNCHANGED sideVars

\* input.recv() yields WriteCmd::Request(request, Some(reply)): seqno += 1,
\* the registration is sent to the read loop
WlRecvRequest ==
    /\ wl = "recv"
    /\ writeQ /= <<>>
    /\ Head(writeQ).type = "Request"
    /\ Head(writeQ).reply
    /\ dequeued' = Append(dequeued, Head(writeQ).id)
    /\ seqno' = seqno + 1
    /\ IF ReadLoopDropped
       THEN /\ WlReturn("SendError")
            /\ UNCHANGED <<expectQ, confirm>>
       ELSE /\ Len(expectQ) < QueueDepth
            /\ expectQ' = Append(expectQ, [tag |-> seqno + 1,
                                           task |-> Head(writeQ).task])
            /\ confirm' = "pending"
            /\ writeQ' = Tail(writeQ)
            /\ wl' = "confirm"
            /\ wlCmd' = Head(writeQ)
            /\ UNCHANGED <<wlOut, wlRes, loopState, firstErr>>
    /\ UNCHANGED <<tickets, inserted, wire, rlVars, answered, callVars, handle>>
    /\ UNCHANGED sideVars

\* a write loop that does not wait for the confirmation: C1 depends on
\* the handshake
ConfirmSkipped == TRUE

\* let _ = confirm_rx.await: ends when the read loop has confirmed or has
\* dropped the registration
ConfirmReady == confirm \in {"ok", "dropped"}

\* the tag is the hexadecimal seqno; the frame is made
WlConfirmed ==
    /\ wl = "confirm"
    /\ ConfirmReady
    /\ confirm' = IF confirm = "pending" THEN "pending" ELSE "none"
    /\ IF wlCmd.serOk
       THEN /\ wl' = "output"
            /\ wlOut' = [id |-> wlCmd.id, part |-> 0,
                         box |-> RequestBox(Some(ToHex(seqno)), CmdSum, SumFields)]
            /\ UNCHANGED <<wlCmd, wlRes, writeQ, loopState, firstErr>>
       ELSE WlReturn("Serde")
    /\ UNCHANGED <<tickets, inserted, expectQ, seqno, wire, dequeued, rlVars, answered, callVars,
                   handle>>
    /\ UNCHANGED sideVars

\* output.send(frame): one partial write of the frame; after the last one
\* the loop is back at input.recv()
WlWrite ==
    /\ wl = "output"
    /\ wire' = Append(wire, [wlOut EXCEPT !.part = @ + 1])
    /\ IF wlOut.part + 1 = FrameParts
       THEN /\ wl' = "recv"
            /\ wlCmd' = NoCmd
            /\ wlOut' = NoOut
       ELSE /\ wlOut' = [wlOut EXCEPT !.part = @ + 1]
            /\ UNCHANGED <<wl, wlCmd>>
    /\ UNCHANGED <<tickets, inserted, writeQ, expectQ, confirm, seqno, wlRes, dequeued, rlVars,
                   answered, callVars, handle, loopState, firstErr>>
    /\ UNCHANGED sideVars

\* output.send(frame) fails with an I/O error
WlWriteError ==
    /\ wl = "output"
    /\ WlReturn("IO")
    /\ UNCHANGED <<tickets, inserted, expectQ, confirm, seqno, wire, dequeued, rlVars, answered,
                   callVars, handle>>
    /\ UNCHANGED sideVars

\* input.recv() yields WriteCmd::Exit
WlRecvExit ==
    /\ wl = "recv"
    /\ writeQ /= <<>>
    /\ Head(writeQ).type = "Exit"
    /\ WlReturn("Ok")
    /\ UNCHANGED <<tickets, inserted, expectQ, confirm, seqno, wire, dequeued, rlVars, answered,
                   callVars, handle>>
    /\ UNCHANGED sideVars

\* input.recv() yields None: the channel is empty and every sender is gone
WlRecvNone ==
    /\ wl = "recv"
    /\ writeQ = <<>>
    /\ ~WriteSenders
    /\ WlReturn("Ok")
    /\ UNCHANGED <<tickets, inserted, expectQ, confirm, seqno, wire, dequeued, rlVars, answered,
                   callVars, handle>>
    /\ UNCHANGED sideVars

(***************************************************************************)
(* read_loop and dispatch_frame.                                           *)
(***************************************************************************)
\* the dispatched futures are dropped with the loop
DropHandlers(hs) ==
    [i \in Inbound |-> IF hs[i].st \in {"running", "ready"}
                       THEN [hs[i] EXCEPT !.st = "dropped"]
                       ELSE hs[i]]

\* a read loop whose reply-map and registrations outlive it: C10 depends
\* on their being dropped
RlReturnLeak(res) ==
    /\ rl' = "done"
    /\ rlRes' = res
    /\ UNCHANGED <<reply_map, expectQ, confirm>>
    /\ handlers' = DropHandlers(handlers)
    /\ loopState' = [loopState EXCEPT !.read_done = TRUE]
    /\ firstErr' = FirstError(res)

\* the loop returns: reply_map, expect_rx (with the queued registrations
\* and their confirm senders), write_tx and the dispatched futures are
\* dropped; the spawned task stores read_done and completes with the
\* result (no await in between)
RlReturnFrom(res, hs) ==
    /\ rl' = "done"
    /\ rlRes' = res
    /\ reply_map' = EmptyBox
    /\ expectQ' = <<>>
    /\ confirm' = IF confirm = "pending" THEN "dropped" ELSE confirm
    /\ handlers' = DropHandlers(hs)
    /\ loopState' = [loopState EXCEPT !.read_done = TRUE]
    /\ firstErr' = FirstError(res)

\* the loop returns and no future has just been taken out of
\* dispatched_requests
RlReturn(res) == RlReturnFrom(res, handlers)

\* a lookup that takes any entry, whatever the tag: C3 depends on the key
ReplyLookupAny(tag) ==
    IF DOMAIN reply_map /= {}
    THEN Some(CHOOSE k \in DOMAIN reply_map : TRUE)
    ELSE None

\* the reply-map key of a response's tag, if the map has it
ReplyLookup(tag) ==
    LET k == TagKey(tag)
    IN  IF IsSome(k) /\ Unwrap(k) \in DOMAIN reply_map THEN k ELSE None

\* a send that succeeds whether or not the receiver exists
ReplyTxSendUnchecked(c) == TRUE

\* reply_tx.send(response): Ok while the caller holds the receiver of its
\* oneshot, Err(response) once the caller has dropped it
ReplyTxSend(c) == callPc[c] = "wait"

\* input.next() yields a frame; dispatch_frame classifies and routes it
RlRecv(box) ==
    /\ rl = "select"
    /\ LET f == TryFromRawFrame(box)
       IN  IF ~f.ok
           THEN /\ RlReturn(f.err)
                /\ UNCHANGED delivered
           ELSE IF f.type = "Request"
           THEN /\ \E i \in Inbound :
                     /\ handlers[i].st = "unsent"
                     /\ \A j \in 1..(i - 1) : handlers[j].st /= "unsent"
                     /\ handlers' = [handlers EXCEPT ![i] =
                                        [st |-> "running", req |-> Some(f),
                                         res |-> "None"]]
                /\ UNCHANGED <<rl, rlRes, reply_map, expectQ, confirm,
                               delivered, loopState, firstErr>>
           ELSE LET k == ReplyLookup(f.tag)
                IN  IF ~IsSome(k)
                    THEN /\ RlReturn("UnmatchedReply")
                         /\ UNCHANGED delivered
                    ELSE IF ReplyTxSend(reply_map[Unwrap(k)])
                    THEN /\ reply_map' = Remove(reply_map, Unwrap(k))
                         /\ delivered' = [delivered EXCEPT
                                            ![reply_map[Unwrap(k)]] = Some(f.response)]
                         /\ UNCHANGED <<rl, rlRes, handlers, expectQ, confirm,
                                        loopState, firstErr>>
                    ELSE /\ RlReturn("InternalError")
                         /\ UNCHANGED delivered
    /\ UNCHANGED <<tickets, inserted, writeQ, seqno, wlVars, wire, dequeued, callMax, callPc,
                   callNo, callRes, handle>>

\* a read loop that confirms a registration without keeping its entry
RlExpectNoInsert ==
    /\ rl = "select"
    /\ expectQ /= <<>>
    /\ reply_map' = reply_map
    /\ inserted' = inserted \cup {Head(expectQ).tag}
    /\ confirm' = "ok"
    /\ expectQ' = Tail(expectQ)
    /\ UNCHANGED <<tickets, writeQ, seqno, wlVars, wire, dequeued, rl, rlRes, handlers,
                   answered, callVars, handle, loopState, firstErr>>
    /\ UNCHANGED sideVars

\* expect_rx.recv() yields a registration: insert, then confirm
RlExpect ==
    /\ rl = "select"
    /\ expectQ /= <<>>
    /\ reply_map' = Put(reply_map, Head(expectQ).tag, Head(expectQ).task)
    /\ inserted' = inserted \cup {Head(expectQ).tag}
    /\ confirm' = "ok"
    /\ expectQ' = Tail(expectQ)
    /\ UNCHANGED <<tickets, writeQ, seqno, wlVars, wire, dequeued, rl, rlRes, handlers,
                   answered, callVars, handle, loopState, firstErr>>
    /\ UNCHANGED sideVars

\* a read loop that takes no notice of the expect channel closing
RlExpectClosedIgnored ==
    /\ rl = "select"
    /\ expectQ = <<>>
    /\ WriteRxDropped
    /\ UNCHANGED vars

\* expect_rx.recv() yields None: the write loop has dropped expect_tx
RlExpectClosed ==
    /\ rl = "select"
    /\ expectQ = <<>>
    /\ WriteRxDropped
    /\ RlReturn("Ok")
    /\ UNCHANGED <<tickets, inserted, writeQ, seqno, wlVars, wire, dequeued, answered, callVars,
                   handle>>
    /\ UNCHANGED sideVars

\* input.next() yields None: end of the input stream
RlEof ==
    /\ rl = "select"
    /\ RlReturn("Ok")
    /\ UNCHANGED <<tickets, inserted, writeQ, seqno, wlVars, wire, dequeued, answered, callVars,
                   handle>>
    /\ UNCHANGED sideVars

\* input.next() yields a decoder or I/O error
RlInputError ==
    /\ rl = "select"
    /\ RlReturn("Codec")
    /\ UNCHANGED <<tickets, inserted, writeQ, seqno, wlVars, wire, dequeued, answered, callVars,
                   handle>>
    /\ UNCHANGED sideVars

\* write_tx.send(WriteCmd::Exit).await?; break
SendExit ==
    IF WriteRxDropped
    THEN /\ RlReturn("SendError")
         /\ UNCHANGED writeQ
    ELSE IF Len(writeQ) < QueueDepth
    THEN /\ writeQ' = Append(writeQ, [type |-> "Exit"])
         /\ RlReturn("Ok")
    ELSE /\ rl' = "sendExit"
         /\ UNCHANGED <<writeQ, rlRes, reply_map, expectQ, confirm, handlers,
                        loopState, firstErr>>

\* a read loop that leaves its loop only for a signal that was sent
RlShutdownOnSignal ==
    /\ rl = "select"
    /\ handle.shutdown = "fired"
    /\ SendExit
    /\ UNCHANGED <<tickets, inserted, seqno, wlVars, wire, dequeued, answered, callVars, handle>>
    /\ UNCHANGED sideVars

\* the shutdown receiver completes: the Handle sent the signal or dropped
\* its sender
RlShutdown ==
    /\ rl = "select"
    /\ handle.shutdown \in {"fired", "closed"}
    /\ SendExit
    /\ UNCHANGED <<tickets, inserted, seqno, wlVars, wire, dequeued, answered, callVars, handle>>
    /\ UNCHANGED sideVars

\* the send of Exit, which waited on the full channel, completes
RlSendExit ==
    /\ rl = "sendExit"
    /\ WriteRxDropped \/ Len(writeQ) < QueueDepth
    /\ SendExit
    /\ UNCHANGED <<tickets, inserted, seqno, wlVars, wire, dequeued, answered, callVars, handle>>
    /\ UNCHANGED sideVars

\* the reply of the application's dispatcher to "Sum"
TotalFields == [x \in {"total"} |-> <<52, 52, 52>>]

\* the frame a handler sends for a tagged request: OkResponse for
\* Ok(reply), ErrorResponse for Err(RemoteError::new(Some("UNHANDLED"), None))
HandlerReply(tag, appOk) ==
    IF appOk THEN OkResponseBox(tag, TotalFields)
    ELSE ErrorResponseBox(tag, UNHANDLED, <<>>)

\* a handler that answers every request, tagged or not (an untagged one
\* under the empty tag): C20 depends on the tagless branch sending nothing
HandlerRunAlways(i, appOk, serOk) ==
    /\ rl = "select"
    /\ handlers[i].st = "running"
    /\ LET f == Unwrap(handlers[i].req)
           t == IF IsSome(f.tag) THEN Unwrap(f.tag) ELSE <<>>
           done(res) == handlers' = [handlers EXCEPT ![i].st = "ready",
                                                     ![i].res = res]
       IN  IF ~IsUtf8(f.command)
           THEN done("InvalidUtf8") /\ UNCHANGED writeQ
           ELSE IF ~serOk
           THEN done("Serde") /\ UNCHANGED writeQ
           ELSE IF WriteRxDropped
           THEN done("SendError") /\ UNCHANGED writeQ
           ELSE /\ Len(writeQ) < QueueDepth
                /\ writeQ' = Append(writeQ,
                       [type |-> "Reply", id |-> <<"reply", i, 0>>,
                        frame |-> HandlerReply(t, appOk)])
                /\ done("Ok")
    /\ UNCHANGED <<tickets, inserted, expectQ, confirm, seqno, wlVars, wire, dequeued, rl, rlRes,
                   reply_map, answered, callVars, handle, loopState, firstErr>>
    /\ UNCHANGED sideVars

\* a dispatched future runs to its end (it is polled by the read loop's
\* select); a send on the full channel waits
HandlerRun(i, appOk, serOk) ==
    /\ rl = "select"
    /\ handlers[i].st = "running"
    /\ LET f == Unwrap(handlers[i].req)
           done(res) == handlers' = [handlers EXCEPT ![i].st = "ready",
                                                     ![i].res = res]
       IN  IF ~IsUtf8(f.command)
           THEN done("InvalidUtf8") /\ UNCHANGED writeQ
           ELSE IF ~IsSome(f.tag)
           THEN done("Ok") /\ UNCHANGED writeQ
           ELSE IF ~serOk
           THEN done("Serde") /\ UNCHANGED writeQ
           ELSE IF WriteRxDropped
           THEN done("SendError") /\ UNCHANGED writeQ
           ELSE /\ Len(writeQ) < QueueDepth
                /\ writeQ' = Append(writeQ,
                       [type |-> "Reply", id |-> <<"reply", i, 0>>,
                        frame |-> HandlerReply(Unwrap(f.tag), appOk)])
                /\ done("Ok")
    /\ UNCHANGED <<tickets, inserted, expectQ, confirm, seqno, wlVars, wire, dequeued, rl, rlRes,
                   reply_map, answered, callVars, handle, loopState, firstErr>>
    /\ UNCHANGED sideVars

\* a read loop that takes a finished future and goes on whatever its
\* result
RlTryNextIgnores(i) ==
    /\ rl = "select"
    /\ handlers[i].st = "ready"
    /\ handlers' = [handlers EXCEPT ![i].st =
                        IF handlers[i].res = "Ok" THEN "collected" ELSE "failed"]
    /\ UNCHANGED <<rl, rlRes, reply_map, expectQ, confirm, loopState, firstErr>>
    /\ UNCHANGED <<tickets, inserted, writeQ, seqno, wlVars, wire, dequeued, answered, callVars,
                   handle>>
    /\ UNCHANGED sideVars

\* dispatched_requests.try_next() yields a finished future, which is out
\* of dispatched_requests then ("collected", or "failed" with an error);
\* dr? returns its error
RlTryNext(i) ==
    /\ rl = "select"
    /\ handlers[i].st = "ready"
    /\ IF handlers[i].res = "Ok"
       THEN /\ handlers' = [handlers EXCEPT ![i].st = "collected"]
            /\ UNCHANGED <<rl, rlRes, reply_map, expectQ, confirm, loopState, firstErr>>
       ELSE RlReturnFrom(handlers[i].res, [handlers EXCEPT ![i].st = "failed"])
    /\ UNCHANGED <<tickets, inserted, writeQ, seqno, wlVars, wire, dequeued, answered, callVars,
                   handle>>
    /\ UNCHANGED sideVars

(***************************************************************************)
(* Handle.                                                                 *)
(***************************************************************************)
\* Handle::shutdown
Shutdown ==
    /\ handle.join = "idle"
    /\ ~handle.shutdownCalled
    /\ handle' = [handle EXCEPT !.write_loop_handle = FALSE,
                                !.shutdown = IF @ = "open" THEN "fired" ELSE @,
                                !.shutdownCalled = TRUE]
    /\ UNCHANGED <<tickets, inserted, writeQ, expectQ, confirm, seqno, wlVars, wire, dequeued,
                   rlVars, answered, callVars, loopState, firstErr>>
    /\ UNCHANGED sideVars

\* the Handle is dropped without shutdown() or join(): its fields are
\* dropped, the Sender<WriteCmd> and the shutdown sender among them; the
\* loops, spawned tasks, run on
HandleDrop ==
    /\ handle.join = "idle"
    /\ ~handle.shutdownCalled
    /\ handle' = [handle EXCEPT !.write_loop_handle = FALSE,
                                !.shutdown = IF @ = "open" THEN "closed" ELSE @,
                                !.join = "dropped"]
    /\ UNCHANGED <<tickets, inserted, writeQ, expectQ, confirm, seqno, wlVars, wire, dequeued,
                   rlVars, answered, callVars, loopState, firstErr>>
    /\ UNCHANGED sideVars

\* Handle::join: write_loop_handle = None, then write_res is awaited
JoinStart ==
    /\ handle.join = "idle"
    /\ handle' = [handle EXCEPT !.write_loop_handle = FALSE, !.join = "write"]
    /\ UNCHANGED <<tickets, inserted, writeQ, expectQ, confirm, seqno, wlVars, wire, dequeued,
                   rlVars, answered, callVars, loopState, firstErr>>
    /\ UNCHANGED sideVars

\* write_res.await.unwrap()?: an error returns (the Handle and its shutdown
\* sender are dropped); otherwise the signal is sent and read_res awaited
JoinWrite ==
    /\ handle.join = "write"
    /\ wl = "done"
    /\ IF wlRes /= "Ok"
       THEN handle' = [handle EXCEPT !.join = "returned", !.joinRes = wlRes,
                          !.shutdown = IF @ = "open" THEN "closed" ELSE @]
       ELSE handle' = [handle EXCEPT !.join = "read",
                          !.shutdown = IF @ = "open" THEN "fired" ELSE @]
    /\ UNCHANGED <<tickets, inserted, writeQ, expectQ, confirm, seqno, wlVars, wire, dequeued,
                   rlVars, answered, callVars, loopState, firstErr>>
    /\ UNCHANGED sideVars

\* read_res.await.unwrap()?; Ok(())
JoinRead ==
    /\ handle.join = "read"
    /\ rl = "done"
    /\ handle' = [handle EXCEPT !.join = "returned", !.joinRes = rlRes]
    /\ UNCHANGED <<tickets, inserted, writeQ, expectQ, confirm, seqno, wlVars, wire, dequeued,
                   rlVars, answered, callVars, loopState, firstErr>>
    /\ UNCHANGED sideVars

\* a state() that reports Closed as soon as one loop is done: C15 depends
\* on the two flags being combined as the source does
StateEither ==
    IF loopState.read_done \/ loopState.write_done THEN "Closed"
    ELSE "Connected"

\* Handle::state
State ==
    IF loopState.read_done /\ loopState.write_done THEN "Closed"
    ELSE IF loopState.read_done \/ loopState.write_done THEN "Closing"
    ELSE "Connected"

(***************************************************************************)
(* The peer.  A frame the peer sends is taken by the read loop's           *)
(* input.next(); the peer sees what has been written to the output stream. *)
(***************************************************************************)
\* the peer's responses to tag t: an OkResponse, or the ErrorResponse of a
\* peer that does not handle the command; the payload names the tag answered
PeerAnswer(t) == OkResponseBox(t, [x \in {"total"} |-> t])
PeerError(t) == ErrorResponseBox(t, UNHANDLED, t)

\* the `_ask` tags of the requests that have reached the output stream
TagsOnWire ==
    {wire[i].box["_ask"] :
        i \in {j \in DOMAIN wire : /\ "_command" \in DOMAIN wire[j].box
                                   /\ "_ask" \in DOMAIN wire[j].box}}

\* the peer answers a request it has seen and not yet answered, with the
\* request's own tag
PeerReplies ==
    /\ \E t \in TagsOnWire \ answered :
           \E box \in {PeerAnswer(t), PeerError(t)} :
               /\ RlRecv(box)
               /\ answered' = answered \cup {t}
    /\ UNCHANGED sideVars

\* the peer sends a request, with or without `_ask`
PeerRequests ==
    /\ \E tag \in {None, Some(Tag23)} :
           /\ RlRecv(RequestBox(tag, CmdSum, SumFields))
           /\ UNCHANGED answered
    /\ UNCHANGED sideVars

\* tags a misbehaving peer may put in a response: the tags of requests
\* (solicited or not, answered or not), "01", "+1", "g", 0xff and ""
PeerTags ==
    {ToHex(k) : k \in 1..MaxCalls}
        \cup {<<48, 49>>, <<43, 49>>, <<103>>, <<255>>, <<>>}

\* the peer sends a response nobody asked for, a second response, or a
\* response whose tag is not the text the request carried
PeerMisbehaves ==
    /\ \E t \in PeerTags :
           /\ RlRecv(PeerAnswer(t))
           /\ UNCHANGED answered
    /\ UNCHANGED sideVars

\* boxes that are no frame, and a request whose command is not UTF-8
BadBoxes ==
    {EmptyBox,
     Put(PeerAnswer(<<49>>), "_command", CmdSum),
     Put(EmptyBox, "_error", <<49>>),
     RequestBox(Some(Tag23), BadUtf8, SumFields)}

PeerMalformed ==
    /\ \E box \in BadBoxes :
           /\ RlRecv(box)
           /\ UNCHANGED answered
    /\ UNCHANGED sideVars

(***************************************************************************)
(* ReplyTicket of the channel-based server (src/server.rs).  Its replies   *)
(* go to the write loop as WriteCmd::Reply, which that write loop handles  *)
(* as the one above does.                                                  *)
(***************************************************************************)
\* "UNKNOWN"
UNKNOWN == <<85, 78, 75, 78, 79, 87, 78>>
\* "Request dropped without reply"
DroppedWithoutReply ==
    <<82, 101, 113, 117, 101, 115, 116, 32, 100, 114, 111, 112, 112, 101, 100,
      32, 119, 105, 116, 104, 111, 117, 116, 32, 114, 101, 112, 108, 121>>

\* the ErrorResponse of a dropped ticket with tag ToHex(i)
AutoError(i) == ErrorResponseBox(ToHex(i), UNKNOWN, DroppedWithoutReply)

\* the application drops the receiver of its dispatch channel
DispatchClose ==
    /\ dispatch.rx = "open"
    /\ dispatch' = [dispatch EXCEPT !.rx = "closed"]
    /\ UNCHANGED <<connVars, frameVars, codecVars, serdeVars>>

\* a dispatch_frame that returns the error of the send to the application
TicketNewPropagates(i) ==
    /\ dispatch.read_loop = "running"
    /\ tickets[i].st = "none"
    /\ \A j \in 1..(i - 1) : tickets[j].st /= "none"
    /\ IF dispatch.rx = "open"
       THEN /\ tickets' = [tickets EXCEPT ![i] =
                              [st |-> "held", tag |-> Some(ToHex(i)),
                               frame |-> EmptyBox, res |-> "None"]]
            /\ UNCHANGED dispatch
       ELSE /\ tickets' = [tickets EXCEPT ![i] =
                              [st |-> "spawned", tag |-> None,
                               frame |-> AutoError(i), res |-> "None"]]
            /\ dispatch' = [dispatch EXCEPT !.lost = @ \cup {i},
                                            !.read_loop = "returned"]
    /\ UNCHANGED <<writeQ, expectQ, confirm, reply_map, inserted, seqno,
                   wlVars, wire, dequeued, rl, rlRes, handlers, answered,
                   callVars, handle, loopState, firstErr>>
    /\ UNCHANGED <<frameVars, codecVars, serdeVars>>

\* dispatch_frame in the running read loop: a tagged request makes a
\* ticket, which is sent to the application with the request; the peer
\* numbers its requests 1, 2, ..  If the application has closed the
\* channel the send fails, its result is ignored, and the request is
\* dropped with its ticket, whose Drop serializes the automatic
\* ErrorResponse and spawns the task that sends it
TicketNew(i) ==
    /\ dispatch.read_loop = "running"
    /\ tickets[i].st = "none"
    /\ \A j \in 1..(i - 1) : tickets[j].st /= "none"
    /\ IF dispatch.rx = "open"
       THEN /\ tickets' = [tickets EXCEPT ![i] =
                              [st |-> "held", tag |-> Some(ToHex(i)),
                               frame |-> EmptyBox, res |-> "None"]]
            /\ UNCHANGED dispatch
       ELSE /\ tickets' = [tickets EXCEPT ![i] =
                              [st |-> "spawned", tag |-> None,
                               frame |-> AutoError(i), res |-> "None"]]
            /\ dispatch' = [dispatch EXCEPT !.lost = @ \cup {i}]
    /\ UNCHANGED <<writeQ, expectQ, confirm, reply_map, inserted, seqno,
                   wlVars, wire, dequeued, rl, rlRes, handlers, answered,
                   callVars, handle, loopState, firstErr>>
    /\ UNCHANGED <<frameVars, codecVars, serdeVars>>

\* the ticket method has taken the tag and serializes its response: a
\* failure returns the error, and the ticket is dropped with tag = None
TicketSerialize(i, frame, serOk) ==
    /\ tickets[i].st = "held"
    /\ IF serOk
       THEN tickets' = [tickets EXCEPT ![i].st = "sending", ![i].tag = None,
                                       ![i].frame = frame]
       ELSE tickets' = [tickets EXCEPT ![i].st = "returned", ![i].tag = None,
                                       ![i].res = "Serde"]
    /\ UNCHANGED <<writeQ, expectQ, confirm, reply_map, inserted, seqno,
                   wlVars, wire, dequeued, rl, rlRes, handlers, answered,
                   callVars, handle, loopState, firstErr>>

\* ReplyTicket::ok up to its await
TicketOk(i, serOk) ==
    /\ TicketSerialize(i, OkResponseBox(Unwrap(tickets[i].tag), TotalFields), serOk)
    /\ UNCHANGED sideVars

\* ReplyTicket::error(None, None) up to its await
TicketError(i, serOk) ==
    /\ TicketSerialize(i, ErrorResponseBox(Unwrap(tickets[i].tag), UNKNOWN, <<>>),
                       serOk)
    /\ UNCHANGED sideVars

\* self.write_handle.send(WriteCmd::Reply(..)).await?; Ok(())
TicketSend(i) ==
    /\ tickets[i].st = "sending"
    /\ IF WriteRxDropped
       THEN /\ tickets' = [tickets EXCEPT ![i].st = "returned",
                                          ![i].res = "SendError"]
            /\ UNCHANGED writeQ
       ELSE /\ Len(writeQ) < QueueDepth
            /\ writeQ' = Append(writeQ, [type |-> "Reply",
                                         id |-> <<"ticket", i, 0>>,
                                         frame |-> tickets[i].frame])
            /\ tickets' = [tickets EXCEPT ![i].st = "returned", ![i].res = "Ok"]
    /\ UNCHANGED <<expectQ, confirm, reply_map, inserted, seqno, wlVars, wire,
                   dequeued, rl, rlRes, handlers, answered, callVars, handle,
                   loopState, firstErr>>
    /\ UNCHANGED sideVars

\* a Drop that sends what error(None, None) sends: C19 depends on the
\* description the Drop gives
TicketDropNoText(i) ==
    /\ tickets[i].st = "held"
    /\ tickets' = [tickets EXCEPT ![i].st = "spawned", ![i].tag = None,
                      ![i].frame = ErrorResponseBox(Unwrap(tickets[i].tag),
                                                    UNKNOWN, <<>>)]
    /\ UNCHANGED <<writeQ, expectQ, confirm, reply_map, inserted, seqno,
                   wlVars, wire, dequeued, rl, rlRes, handlers, answered,
                   callVars, handle, loopState, firstErr>>
    /\ UNCHANGED sideVars

\* Drop for ReplyTicket with the tag still there: the automatic
\* ErrorResponse is serialized and a task is spawned to send it
TicketDrop(i) ==
    /\ tickets[i].st = "held"
    /\ tickets' = [tickets EXCEPT ![i].st = "spawned", ![i].tag = None,
                      ![i].frame = ErrorResponseBox(Unwrap(tickets[i].tag),
                                                    UNKNOWN, DroppedWithoutReply)]
    /\ UNCHANGED <<writeQ, expectQ, confirm, reply_map, inserted, seqno,
                   wlVars, wire, dequeued, rl, rlRes, handlers, answered,
                   callVars, handle, loopState, firstErr>>
    /\ UNCHANGED sideVars

\* the spawned task: write_handle.send(..).await.expect("error on drop")
TicketDropSend(i) ==
    /\ tickets[i].st = "spawned"
    /\ IF WriteRxDropped
       THEN /\ tickets' = [tickets EXCEPT ![i].st = "panicked"]
            /\ UNCHANGED writeQ
       ELSE /\ Len(writeQ) < QueueDepth
            /\ writeQ' = Append(writeQ, [type |-> "Reply",
                                         id |-> <<"ticket", i, 0>>,
                                         frame |-> tickets[i].frame])
            /\ tickets' = [tickets EXCEPT ![i].st = "dropped"]
    /\ UNCHANGED <<expectQ, confirm, reply_map, inserted, seqno, wlVars, wire,
                   dequeued, rl, rlRes, handlers, answered, callVars, handle,
                   loopState, firstErr>>
    /\ UNCHANGED sideVars

(***************************************************************************)
(* The wire format: amp_serde's serializer for a map of byte strings and   *)
(* the decoder Dec<V> of amp-async, which reads length-delimited segments. *)
(* A length prefix is two digits, most significant first; the model's      *)
(* digits have radix LenRadix where the source's bytes have radix 256, so  *)
(* the limits 0xff and 0xffff become LenRadix - 1 and LenRadix^2 - 1, and  *)
(* every byte of the stream is a digit.                                    *)
(***************************************************************************)
\* AMP_KEY_LIMIT: what one digit can count
AMP_KEY_LIMIT == LenRadix - 1
\* AMP_VALUE_LIMIT: what the two digits of a prefix can count
AMP_VALUE_LIMIT == LenRadix * LenRadix - 1
\* AMP_LENGTH_SIZE
AMP_LENGTH_SIZE == 2

\* u16::to_be_bytes
ToBeBytes(n) == <<n \div LenRadix, n % LenRadix>>
\* u16::from_be_bytes
FromBeBytes(b) == b[1] * LenRadix + b[2]

Min(a, b) == IF a < b THEN a ELSE b
\* the bytes of s after the first n
Drop(s, n) == SubSeq(s, n + 1, Len(s))
\* the first n bytes of s
Take(s, n) == SubSeq(s, 1, n)

\* Serializer::push_key for a byte string: prefix and bytes, or the error
\* of write_len(.., true)
PushKey(key) ==
    IF Len(key) = 0 THEN [ok |-> FALSE, err |-> "EmptyKey"]
    ELSE IF Len(key) > AMP_KEY_LIMIT THEN [ok |-> FALSE, err |-> "KeyTooLong"]
    ELSE [ok |-> TRUE, bytes |-> ToBeBytes(Len(key)) \o key]

\* Serializer::push_value for a byte string: prefix and bytes, or the
\* error of write_len(.., false)
PushValue(value) ==
    IF Len(value) > AMP_VALUE_LIMIT THEN [ok |-> FALSE, err |-> "ValueTooLong"]
    ELSE [ok |-> TRUE, bytes |-> ToBeBytes(Len(value)) \o value]

\* value.chunks(AMP_VALUE_LIMIT), each chunk behind its length
RECURSIVE Chunks(_)
Chunks(value) ==
    IF value = <<>> THEN <<>>
    ELSE LET n == Min(Len(value), AMP_VALUE_LIMIT)
         IN  ToBeBytes(n) \o Take(value, n) \o Chunks(Drop(value, n))

\* AmpEncoder::push_long_value: V1 pushes the value whole, V2 in chunks
PushLongValue(v, value) ==
    IF v = "V1" THEN PushValue(value)
    ELSE IF value = <<>> THEN [ok |-> TRUE, bytes |-> ToBeBytes(0)]
    ELSE [ok |-> TRUE, bytes |-> Chunks(value)]

\* to_bytes of a map given as its pairs in order: SerializeMap's
\* serialize_key and serialize_value for each pair, then end()
RECURSIVE ToBytes(_, _)
ToBytes(v, pairs) ==
    IF pairs = <<>> THEN [ok |-> TRUE, bytes |-> ToBeBytes(0)]
    ELSE LET k == PushKey(pairs[1][1])
             x == PushLongValue(v, pairs[1][2])
             rest == ToBytes(v, Tail(pairs))
         IN  IF ~k.ok THEN k
             ELSE IF ~x.ok THEN x
             ELSE IF ~rest.ok THEN rest
             ELSE [ok |-> TRUE, bytes |-> k.bytes \o x.bytes \o rest.bytes]

\* Dec::default(): state Key, no key, no value, no pairs; the
\* LengthDelimitedCodec waits for a head (ld = None; Some(n) is
\* DecodeState::Data(n)) and takes frames up to AMP_KEY_LIMIT
DecDefault ==
    [state |-> "Key", key |-> <<>>, value |-> <<>>, frame |-> <<>>,
     ld |-> None, max_frame_length |-> AMP_KEY_LIMIT]

\* a LengthDelimitedCodec that removes the prefix from the buffer and does
\* not remember it while the segment is incomplete
LdDecodeHeadLost(d, b) ==
    LET headOk == Len(b) >= AMP_LENGTH_SIZE
        n == FromBeBytes(b)
        data == Drop(b, AMP_LENGTH_SIZE)
    IN  IF ~headOk THEN [res |-> "None", dec |-> d, buf |-> b]
        ELSE IF n > d.max_frame_length
        THEN [res |-> "Err", dec |-> d, buf |-> b]
        ELSE IF Len(data) < n
        THEN [res |-> "None", dec |-> d, buf |-> data]
        ELSE [res |-> "Some", dec |-> d,
              buf |-> Drop(data, n), segment |-> Take(data, n)]

\* LengthDelimitedCodec::decode: decode_head reads the two-digit prefix,
\* fails if it exceeds max_frame_length, and removes it from the buffer;
\* decode_data splits the segment off once the buffer holds all of it
LdDecode(d, b) ==
    LET headOk == IsSome(d.ld) \/ Len(b) >= AMP_LENGTH_SIZE
        n == IF IsSome(d.ld) THEN Unwrap(d.ld) ELSE FromBeBytes(b)
        data == IF IsSome(d.ld) THEN b ELSE Drop(b, AMP_LENGTH_SIZE)
    IN  IF ~headOk THEN [res |-> "None", dec |-> d, buf |-> b]
        ELSE IF ~IsSome(d.ld) /\ n > d.max_frame_length
        THEN [res |-> "Err", dec |-> d, buf |-> b]
        ELSE IF Len(data) < n
        THEN [res |-> "None", dec |-> [d EXCEPT !.ld = Some(n)], buf |-> data]
        ELSE [res |-> "Some", dec |-> [d EXCEPT !.ld = None],
              buf |-> Drop(data, n), segment |-> Take(data, n)]

\* a decoder that keeps the key of a complete pair
PairDoneKeepsKey(d, value) ==
    [d EXCEPT !.frame = Append(@, <<d.key, value>>),
              !.value = <<>>, !.state = "Key",
              !.max_frame_length = AMP_KEY_LIMIT]

\* the pair is complete: it joins the frame and the decoder expects a key
PairDone(d, value) ==
    [d EXCEPT !.frame = Append(@, <<d.key, value>>), !.key = <<>>,
              !.value = <<>>, !.state = "Key",
              !.max_frame_length = AMP_KEY_LIMIT]

\* a handle_value that expects a continuation in every version
HandleValueContAlways(v, d, segment) ==
    IF Len(segment) = AMP_VALUE_LIMIT
    THEN [d EXCEPT !.value = segment, !.state = "ValueCont"]
    ELSE PairDone(d, segment)

\* AmpVersion::handle_value: V1 takes the segment as the value; V2 expects
\* a continuation after a segment of AMP_VALUE_LIMIT bytes
HandleValue(v, d, segment) ==
    IF v = "V2" /\ Len(segment) = AMP_VALUE_LIMIT
    THEN [d EXCEPT !.value = segment, !.state = "ValueCont"]
    ELSE PairDone(d, segment)

\* Dec::handle_valuecont
HandleValueCont(d, segment) ==
    IF Len(segment) /= AMP_VALUE_LIMIT
    THEN PairDone(d, d.value \o segment)
    ELSE [d EXCEPT !.value = @ \o segment]

\* Dec::decode: segments are taken until a frame is complete (Some), the
\* buffer runs out (None) or a prefix is too large (Err)
RECURSIVE DecDecode(_, _, _)
DecDecode(v, d, b) ==
    LET s == LdDecode(d, b)
    IN  IF s.res /= "Some" THEN [res |-> s.res, dec |-> s.dec, buf |-> s.buf]
        ELSE IF s.dec.state = "Key"
        THEN IF s.segment = <<>>
             THEN [res |-> "Some", item |-> s.dec.frame,
                   dec |-> [s.dec EXCEPT !.frame = <<>>], buf |-> s.buf]
             ELSE DecDecode(v, [s.dec EXCEPT !.key = s.segment,
                                             !.state = "Value",
                                             !.max_frame_length = AMP_VALUE_LIMIT],
                            s.buf)
        ELSE IF s.dec.state = "Value"
        THEN DecDecode(v, HandleValue(v, s.dec, s.segment), s.buf)
        ELSE DecDecode(v, HandleValueCont(s.dec, s.segment), s.buf)

(***************************************************************************)
(* The codec of the channel-based server (src/codecs.rs): Enc and Dec,     *)
(* written by hand, without long values.  "Dec" names it as a version.     *)
(***************************************************************************)
\* Enc::encode with dst holding `dst` before: the pairs in order, each
\* checked before it is written, then the empty key
RECURSIVE EncEncode(_, _)
EncEncode(item, dst) ==
    IF item = <<>> THEN [ok |-> TRUE, bytes |-> dst \o ToBeBytes(0)]
    ELSE LET key == item[1][1]
             value == item[1][2]
         IN  IF Len(key) = 0
             THEN [ok |-> FALSE, err |-> "EmptyKey", bytes |-> dst]
             ELSE IF Len(key) > AMP_KEY_LIMIT
             THEN [ok |-> FALSE, err |-> "KeyTooLong", bytes |-> dst]
             ELSE IF Len(value) > AMP_VALUE_LIMIT
             THEN [ok |-> FALSE, err |-> "ValueTooLong", bytes |-> dst]
             ELSE EncEncode(Tail(item),
                            dst \o ToBeBytes(Len(key)) \o key
                                \o ToBeBytes(Len(value)) \o value)

\* Dec::default() of src/codecs.rs
CodecDecDefault == [state |-> "Key", key |-> <<>>, frame |-> <<>>]

\* Dec::read_delimited: the segment is taken, prefix and all, once the
\* buffer holds all of it
ReadDelimited(length, b) ==
    IF Len(b) >= length + AMP_LENGTH_SIZE
    THEN [some |-> TRUE, segment |-> Take(Drop(b, AMP_LENGTH_SIZE), length),
          buf |-> Drop(b, AMP_LENGTH_SIZE + length)]
    ELSE [some |-> FALSE, buf |-> b]

\* Dec::decode of src/codecs.rs
RECURSIVE CodecDecDecode(_, _)
CodecDecDecode(d, b) ==
    IF Len(b) < AMP_LENGTH_SIZE THEN [res |-> "None", dec |-> d, buf |-> b]
    ELSE LET length == FromBeBytes(b)
             s == ReadDelimited(length, b)
         IN  IF d.state = "Key"
             THEN IF length = 0
                  THEN [res |-> "Some", item |-> d.frame,
                        dec |-> [d EXCEPT !.frame = <<>>],
                        buf |-> Drop(b, AMP_LENGTH_SIZE)]
                  ELSE IF length > AMP_KEY_LIMIT
                  THEN [res |-> "Err", dec |-> d, buf |-> b]
                  ELSE IF s.some
                  THEN CodecDecDecode([d EXCEPT !.key = s.segment,
                                                !.state = "Value"], s.buf)
                  ELSE [res |-> "None", dec |-> d, buf |-> b]
             ELSE IF s.some
             THEN CodecDecDecode(
                      [d EXCEPT !.frame = Append(@, <<d.key, s.segment>>),
                                !.key = <<>>, !.state = "Key"], s.buf)
             ELSE [res |-> "None", dec |-> d, buf |-> b]

\* the encoder, the decoder and the new decoder of a version
EncodeBox(v, pairs) ==
    IF v = "Dec" THEN EncEncode(pairs, <<>>) ELSE ToBytes(v, pairs)
DecodeBuf(v, d, b) ==
    IF v = "Dec" THEN CodecDecDecode(d, b) ELSE DecDecode(v, d, b)
DecNew(v) == IF v = "Dec" THEN CodecDecDefault ELSE DecDefault

\* the keys a box may have: 1 .. AMP_KEY_LIMIT bytes
CodecKeys == UNION {[1..n -> 0..(LenRadix - 1)] : n \in 1..AMP_KEY_LIMIT}

\* the values a box may have: up to AMP_VALUE_LIMIT bytes, longer ones
\* too in V2 (here up to two full segments and one byte)
CodecValues(v) ==
    {[i \in 1..n |-> 1] :
        n \in 0..(IF v = "V2" THEN 2 * AMP_VALUE_LIMIT + 1 ELSE AMP_VALUE_LIMIT)}

\* the boxes with n pairs
CodecBoxes(v, n) == [1..n -> CodecKeys \X CodecValues(v)]

\* what there is to send: up to MaxFrames boxes with up to MaxPairs pairs
\* between them
CodecInputs(v) ==
    UNION {[1..f -> UNION {CodecBoxes(v, n) : n \in 0..MaxPairs}] :
              f \in 1..MaxFrames}

RECURSIVE PairCount(_)
PairCount(boxes) ==
    IF boxes = <<>> THEN 0 ELSE Len(boxes[1]) + PairCount(Tail(boxes))

\* the application has boxes to send through one of the codecs
InitCodec ==
    /\ Serve
    /\ callMax = [c \in Tasks |-> 1]
    /\ FrameIdle
    /\ DispatchOpen
    /\ SerdeIdle
    /\ codecV \in {"V1", "V2", "Dec"}
    /\ codecIn \in {bs \in CodecInputs(codecV) : PairCount(bs) <= MaxPairs}
    /\ codecPc = "input"
    /\ stream = <<>>
    /\ buf = <<>>
    /\ readable = FALSE
    /\ dec = DecNew(codecV)
    /\ decOut = <<>>
    /\ decErr = FALSE

\* the bytes of the boxes, one after the other
RECURSIVE ToBytesAll(_, _)
ToBytesAll(v, boxes) ==
    IF boxes = <<>> THEN <<>>
    ELSE EncodeBox(v, boxes[1]).bytes \o ToBytesAll(v, Tail(boxes))

\* to_bytes, or Enc::encode, of each box; the bytes go to the peer's reader
Encode ==
    /\ codecPc = "input"
    /\ codecPc' = "stream"
    /\ stream' = ToBytesAll(codecV, codecIn)
    /\ UNCHANGED <<connVars, dispatch, frameVars, serdeVars, codecV, codecIn, buf, readable, dec,
                   decOut, decErr>>

\* FramedRead reads some of the bytes into its buffer
Feed(n) ==
    /\ codecPc = "stream"
    /\ ~readable /\ ~decErr
    /\ n \in 1..Len(stream)
    /\ buf' = buf \o Take(stream, n)
    /\ stream' = Drop(stream, n)
    /\ readable' = TRUE
    /\ UNCHANGED <<connVars, dispatch, frameVars, serdeVars, codecV, codecIn, codecPc, dec, decOut,
                   decErr>>

\* FramedRead calls Dec::decode on its buffer: a frame is handed on, or
\* more bytes are needed, or the stream is in error
Decode ==
    /\ readable /\ ~decErr
    /\ LET r == DecodeBuf(codecV, dec, buf)
       IN  /\ dec' = r.dec
           /\ buf' = r.buf
           /\ decOut' = IF r.res = "Some" THEN Append(decOut, r.item) ELSE decOut
           /\ readable' = (r.res = "Some")
           /\ decErr' = (r.res = "Err")
    /\ UNCHANGED <<connVars, dispatch, frameVars, serdeVars, codecV, codecIn, codecPc, stream>>

(***************************************************************************)
(* amp-serde: to_bytes and from_bytes.  A type is Bytes (a byte buffer),   *)
(* Unit, a map (BTreeMap) or an AmpList; a byte buffer is the sequence of  *)
(* its bytes, () is <<>>, a map is its pairs in key order and a list the   *)
(* sequence of its items.                                                  *)
(***************************************************************************)
TyBytes == [t |-> "Bytes"]
TyUnit == [t |-> "Unit"]
TyMap(k, v) == [t |-> "Map", k |-> k, v |-> v]
TyList(e) == [t |-> "List", e |-> e]
\* Vec<T>, a serde sequence
TySeq(e) == [t |-> "Seq", e |-> e]

\* Ord for Vec<u8>
RECURSIVE KeyLess(_, _)
KeyLess(a, b) ==
    IF b = <<>> THEN FALSE
    ELSE IF a = <<>> THEN TRUE
    ELSE IF a[1] /= b[1] THEN a[1] < b[1]
    ELSE KeyLess(Tail(a), Tail(b))

\* BTreeMap::insert on the pairs in key order
RECURSIVE BTreeInsert(_, _, _)
BTreeInsert(m, k, v) ==
    IF m = <<>> THEN <<<<k, v>>>>
    ELSE IF m[1][1] = k THEN <<<<k, v>>>> \o Tail(m)
    ELSE IF KeyLess(k, m[1][1]) THEN <<<<k, v>>>> \o m
    ELSE <<m[1]>> \o BTreeInsert(Tail(m), k, v)

\* the results of the deserializer: the value and the input left, or the
\* error and the input left; residue says that a key's or a value's bytes
\* were not used up by what was decoded from them
DeOk(val, rest) == [ok |-> TRUE, val |-> val, rest |-> rest, residue |-> FALSE]
DeErr(err, rest, residue) ==
    [ok |-> FALSE, err |-> err, rest |-> rest, residue |-> residue]

\* AmpList::serialize through SerializeTupleVariant: each item is
\* serialized into the same serializer, with no separator
RECURSIVE AmpListToBytes(_, _)
AmpListToBytes(v, items) ==
    IF items = <<>> THEN [ok |-> TRUE, bytes |-> <<>>]
    ELSE LET item == ToBytes(v, items[1])
             rest == AmpListToBytes(v, Tail(items))
         IN  IF ~item.ok THEN item
             ELSE IF ~rest.ok THEN rest
             ELSE [ok |-> TRUE, bytes |-> item.bytes \o rest.bytes]

\* SerializeSeq for Compound: each element goes through push_value, its
\* length before it; end() adds nothing
RECURSIVE SeqToBytes(_)
SeqToBytes(items) ==
    IF items = <<>> THEN [ok |-> TRUE, bytes |-> <<>>]
    ELSE LET item == PushValue(items[1])
             rest == SeqToBytes(Tail(items))
         IN  IF ~item.ok THEN item
             ELSE IF ~rest.ok THEN rest
             ELSE [ok |-> TRUE, bytes |-> item.bytes \o rest.bytes]

RECURSIVE Deserialize(_, _)
RECURSIVE VisitMap(_, _, _, _)
RECURSIVE VisitList(_, _, _)
RECURSIVE VisitSeq(_, _, _)

\* a seed deserialized from its own slice, had the sub-deserializer's
\* error been returned before its input was looked at
ScopedResFirst(ty, scope, rest) ==
    LET sub == Deserialize(ty, scope)
    IN  IF ~sub.ok THEN DeErr(sub.err, rest, sub.residue \/ sub.rest /= <<>>)
        ELSE IF sub.rest /= <<>> THEN DeErr("RemainingBytes", rest, TRUE)
        ELSE DeOk(sub.val, rest)

\* next_key_seed and next_value_seed from the split on: the seed is
\* deserialized from the slice alone, and bytes left in it are an error
\* whatever the seed's own result
Scoped(ty, scope, rest) ==
    LET sub == Deserialize(ty, scope)
    IN  IF sub.rest /= <<>> THEN DeErr("RemainingBytes", rest, TRUE)
        ELSE IF sub.ok THEN DeOk(sub.val, rest)
        ELSE DeErr(sub.err, rest, sub.residue)

\* MapAccess::next_key_seed; `end` is Ok(None)
NextKeySeed(ty, input) ==
    IF Len(input) >= AMP_LENGTH_SIZE /\ Take(input, AMP_LENGTH_SIZE) = <<0, 0>>
    THEN [end |-> TRUE, rest |-> Drop(input, AMP_LENGTH_SIZE)]
    ELSE [end |-> FALSE,
          res |-> IF Len(input) < AMP_LENGTH_SIZE
                  THEN DeErr("ExpectedMapKey", input, FALSE)
                  ELSE LET length == FromBeBytes(input)
                           after == Drop(input, AMP_LENGTH_SIZE)
                       IN  IF length > AMP_KEY_LIMIT
                           THEN DeErr("ExpectedMapKey", input, FALSE)
                           ELSE IF Len(after) >= length
                           THEN Scoped(ty, Take(after, length), Drop(after, length))
                           ELSE DeErr("ExpectedMapKey", after, FALSE)]

\* MapAccess::next_value_seed
NextValueSeed(ty, input) ==
    IF Len(input) < AMP_LENGTH_SIZE THEN DeErr("ExpectedMapValue", input, FALSE)
    ELSE LET length == FromBeBytes(input)
             after == Drop(input, AMP_LENGTH_SIZE)
         IN  IF Len(after) >= length
             THEN Scoped(ty, Take(after, length), Drop(after, length))
             ELSE DeErr("ExpectedMapValue", after, FALSE)

\* visit_map of a BTreeMap: entries are taken and inserted until the keys end
VisitMap(kty, vty, input, m) ==
    LET k == NextKeySeed(kty, input)
    IN  IF k.end THEN DeOk(m, k.rest)
        ELSE IF ~k.res.ok THEN k.res
        ELSE LET x == NextValueSeed(vty, k.res.rest)
             IN  IF ~x.ok THEN x
                 ELSE VisitMap(kty, vty, x.rest, BTreeInsert(m, k.res.val, x.val))

\* visit_seq of AmpList over AmpListHandler: items are deserialized from
\* the same input until it is empty
VisitList(ety, input, out) ==
    IF input = <<>> THEN DeOk(out, input)
    ELSE LET item == Deserialize(ety, input)
         IN  IF ~item.ok THEN item
             ELSE VisitList(ety, item.rest, Append(out, item.val))

\* SeqAccess::next_element_seed for &mut Deserializer; `end` is Ok(None)
NextElementSeed(ty, input) ==
    IF Len(input) < AMP_LENGTH_SIZE
    THEN [end |-> FALSE, res |-> DeErr("ExpectedSeqLength", input, FALSE)]
    ELSE LET length == FromBeBytes(input)
             after == Drop(input, AMP_LENGTH_SIZE)
         IN  IF after = <<>> THEN [end |-> TRUE, rest |-> after]
             ELSE [end |-> FALSE,
                   res |-> IF Len(after) >= length
                           THEN Scoped(ty, Take(after, length), Drop(after, length))
                           ELSE DeErr("ExpectedSeqValue", after, FALSE)]

\* visit_seq of Vec<T>: elements are taken and pushed until next_element
\* says None
VisitSeq(ety, input, out) ==
    LET e == NextElementSeed(ety, input)
    IN  IF e.end THEN DeOk(out, e.rest)
        ELSE IF ~e.res.ok THEN e.res
        ELSE VisitSeq(ety, e.res.rest, Append(out, e.res.val))

\* Deserialize for the type, on a Deserializer holding input:
\* deserialize_byte_buf takes all of it, deserialize_unit none of it
Deserialize(ty, input) ==
    IF ty.t = "Bytes" THEN DeOk(input, <<>>)
    ELSE IF ty.t = "Unit" THEN DeOk(<<>>, input)
    ELSE IF ty.t = "Map" THEN VisitMap(ty.k, ty.v, input, <<>>)
    ELSE IF ty.t = "Seq" THEN VisitSeq(ty.e, input, <<>>)
    ELSE VisitList(ty.e, input, <<>>)

\* from_bytes
FromBytes(ty, s) ==
    LET d == Deserialize(ty, s)
    IN  IF ~d.ok THEN d
        ELSE IF d.rest = <<>> THEN d
        ELSE DeErr("RemainingBytes", d.rest, FALSE)

\* the maps of byte buffers a program may hold: pairs in key order
SerMaps(v) ==
    {m \in UNION {CodecBoxes(v, n) : n \in 0..MaxPairs} :
        \A i \in 1..(Len(m) - 1) : KeyLess(m[i][1], m[i + 1][1])}

\* the lists of up to MaxItems maps
SerLists(v) == UNION {[1..n -> SerMaps(v)] : n \in 0..MaxItems}

\* the types asked of from_bytes
SerKeyTypes == {TyBytes, TyUnit}
SerValueTypes == {TyBytes, TyUnit, TyMap(TyBytes, TyBytes)}
SerTypes ==
    {TyBytes, TyUnit, TyList(TyMap(TyBytes, TyBytes))}
        \cup {TyMap(k, v) : k \in SerKeyTypes, v \in SerValueTypes}

\* the byte strings given to from_bytes
SerInputs == UNION {[1..n -> 0..(LenRadix - 1)] : n \in 0..MaxBytes}

\* a program has a list of maps to serialize and read back
InitValue ==
    /\ serV \in {"V1", "V2"}
    /\ serTy = TyList(TyMap(TyBytes, TyBytes))
    /\ serVal \in SerLists(serV)
    /\ serBytes = <<>>
    /\ serRes = None
    /\ serPc = "value"

\* the byte buffers that fit a value
SerElems == UNION {[1..n -> 0..(LenRadix - 1)] : n \in 0..AMP_VALUE_LIMIT}

\* a program has a Vec of up to MaxItems byte buffers to serialize and
\* read back
InitSeqValue ==
    /\ serV \in {"V1", "V2"}
    /\ serTy = TySeq(TyBytes)
    /\ serVal \in UNION {[1..n -> SerElems] : n \in 0..MaxItems}
    /\ serBytes = <<>>
    /\ serRes = None
    /\ serPc = "value"

\* a program has received bytes and asks for a value of some type
InitBytes ==
    /\ serV = "V1"
    /\ serTy \in SerTypes
    /\ serVal = <<>>
    /\ serBytes \in SerInputs
    /\ serRes = None
    /\ serPc = "bytes"

InitSerde ==
    /\ Serve
    /\ callMax = [c \in Tasks |-> 1]
    /\ FrameIdle
    /\ DispatchOpen
    /\ CodecIdle
    /\ InitValue \/ InitBytes

InitSerdeSeq ==
    /\ Serve
    /\ callMax = [c \in Tasks |-> 1]
    /\ FrameIdle
    /\ DispatchOpen
    /\ CodecIdle
    /\ InitSeqValue

\* to_bytes of a sequence or of an AmpList
ValueToBytes(v, ty, val) ==
    IF ty.t = "Seq" THEN SeqToBytes(val) ELSE AmpListToBytes(v, val)

\* to_bytes of the value
SerToBytes ==
    /\ serPc = "value"
    /\ LET r == ValueToBytes(serV, serTy, serVal)
       IN  IF r.ok
           THEN serBytes' = r.bytes /\ serPc' = "encoded" /\ serRes' = serRes
           ELSE /\ serRes' = Some(DeErr(r.err, <<>>, FALSE))
                /\ serPc' = "failed"
                /\ serBytes' = serBytes
    /\ UNCHANGED <<connVars, dispatch, frameVars, codecVars, serV, serTy, serVal>>

\* from_bytes of the bytes
SerFromBytes ==
    /\ serPc \in {"encoded", "bytes"}
    /\ serRes' = Some(FromBytes(serTy, serBytes))
    /\ serPc' = IF serPc = "encoded" THEN "decoded" ELSE "done"
    /\ UNCHANGED <<connVars, dispatch, frameVars, codecVars, serV, serTy, serVal, serBytes>>

(***************************************************************************)
(* The frame classifier on its own: any box a decoder can hand over.       *)
(***************************************************************************)
\* the keys a box may hold: the three markers, `_ask`, the two fields of
\* an error, and one application field
FrameKeys ==
    {"_command", "_answer", "_error", "_ask", "_error_code",
     "_error_description", "a"}

\* every box over those keys, each value one of two byte strings
RawFrames ==
    UNION {[ks -> {<<49>>, Tag23}] : ks \in SUBSET FrameKeys}

\* dispatch_frame is handed a decoded box ..
InitFrame ==
    /\ Serve
    /\ callMax = [c \in Tasks |-> 1]
    /\ rawFrame \in RawFrames
    /\ frameRes = None
    /\ DispatchOpen
    /\ CodecIdle
    /\ SerdeIdle

\* .. and classifies it: frame.try_into()
TryInto ==
    /\ frameRes = None
    /\ frameRes' = Some(TryFromRawFrame(rawFrame))
    /\ UNCHANGED <<connVars, dispatch, rawFrame, codecVars, serdeVars>>

(***************************************************************************)
(* Specifications.                                                         *)
(***************************************************************************)
NextApp ==
    \/ \E c \in Tasks, reply \in BOOLEAN : CallRemote(c, reply, TRUE)
    \/ \E c \in Tasks : CallComplete(c)
    \/ \E c \in Tasks : TaskQuit(c)

NextWrite ==
    \/ WlRecvReply
    \/ WlRecvNoReply
    \/ WlRecvRequest
    \/ WlConfirmed
    \/ WlWrite
    \/ WlRecvExit

NextRead ==
    \/ PeerReplies
    \/ PeerRequests
    \/ RlExpect
    \/ RlShutdown
    \/ RlSendExit
    \/ \E i \in Inbound, appOk \in BOOLEAN : HandlerRun(i, appOk, TRUE)
    \/ \E i \in Inbound : RlTryNext(i)

NextHandle ==
    \/ Shutdown
    \/ JoinStart
    \/ JoinWrite
    \/ JoinRead

\* a peer that follows the protocol and keeps its side of the stream open,
\* streams that do not fail, values that serialize
NextGood == NextApp \/ NextWrite \/ NextRead \/ NextHandle

\* a peer that may also close the stream (the read loop then ends without
\* WriteCmd::Exit, and the write loop ends when the last sender is dropped)
\* or send a response of its own making
NextPeer == NextGood \/ RlEof \/ WlRecvNone \/ PeerMisbehaves

\* failures, and RlExpectClosed, which needs the write loop to end before
\* the read loop and so a failure of the write loop
NextFaults ==
    \/ PeerMalformed
    \/ RlExpectClosed
    \/ RlInputError
    \/ WlWriteError
    \/ \E c \in Tasks, reply \in BOOLEAN : CallRemote(c, reply, FALSE)
    \/ \E i \in Inbound : HandlerRun(i, TRUE, FALSE)

Next == NextPeer \/ NextFaults

\* the connection with any peer and any failure
Spec == Init /\ [][Next]_vars

\* one task calls, the other holds no RequestSender
InitLive ==
    /\ Serve
    /\ callMax = [c \in Tasks |-> IF c = 1 THEN 1 ELSE 0]
    /\ SideIdle

\* the read loop is a spawned task that the runtime keeps polling, and its
\* select takes a branch that stays ready: a registration is received, the
\* closing of the expect channel is seen, a send that can complete does
ReadLoopFair ==
    /\ WF_vars(RlExpect)
    /\ WF_vars(RlExpectClosed)
    /\ WF_vars(RlSendExit)

\* the connection with any peer and any failure, the read loop being
\* scheduled fairly
SpecLive == InitLive /\ [][Next]_vars /\ ReadLoopFair

\* failures on this side of the connection: the output stream fails, a
\* value does not serialize; the expect channel closes under the read loop
\* once the write loop has failed
NextLocal ==
    \/ WlWriteError
    \/ RlExpectClosed
    \/ \E c \in Tasks, reply \in BOOLEAN : CallRemote(c, reply, FALSE)
    \/ \E i \in Inbound : HandlerRun(i, TRUE, FALSE)

\* the connection with a peer that follows the protocol, with failures on
\* this side
SpecLocal == Init /\ [][NextGood \/ NextLocal]_vars

\* the connection with a peer that follows the protocol
SpecGood == Init /\ [][NextGood]_vars

\* the connection with a peer that follows the protocol and callers that
\* may give up their calls
SpecAbandon == Init /\ [][NextGood \/ \E c \in Tasks : CallAbandon(c)]_vars

\* the connection with a peer that follows the protocol and an application
\* that may drop its Handle; the select of the read loop takes the
\* shutdown branch while it stays ready
SpecDrop == Init /\ [][NextGood \/ HandleDrop]_vars /\ WF_vars(RlShutdown)

\* the connection with a peer that follows the protocol, both loops being
\* scheduled fairly: the read loop as in SpecLive, and the write loop goes
\* on once its confirmation receiver has completed
SpecGoodFair ==
    Init /\ [][NextGood]_vars /\ ReadLoopFair /\ WF_vars(WlConfirmed)

\* the connection with any peer, without local failures
SpecPeer == Init /\ [][NextPeer]_vars

\* the sequential client: task 1 calls call_remote again and again, the
\* other tasks call call_remote_noreply, the peer answers and sends
\* requests of its own
NextSeq ==
    \/ CallRemote(1, TRUE, TRUE)
    \/ \E c \in Tasks \ {1} : CallRemote(c, FALSE, TRUE)
    \/ CallComplete(1)
    \/ WlRecvReply
    \/ WlRecvNoReply
    \/ WlRecvRequest
    \/ WlConfirmed
    \/ WlWrite
    \/ RlExpect
    \/ PeerReplies
    \/ PeerRequests
    \/ \E i \in Inbound : HandlerRun(i, TRUE, TRUE)
    \/ \E i \in Inbound : RlTryNext(i)

SpecSeq == InitSeq /\ [][NextSeq]_vars

\* the classification of one box
SpecFrame == InitFrame /\ [][TryInto]_vars

\* boxes are serialized, the bytes arrive in pieces and are decoded
NextCodec ==
    \/ Encode
    \/ \E n \in 1..(MaxFrames * (MaxPairs + 2) * (AMP_VALUE_LIMIT + 3)) : Feed(n)
    \/ Decode

SpecCodec == InitCodec /\ [][NextCodec]_vars

\* values are serialized and read back, bytes are deserialized
NextSerde ==
    \/ SerToBytes
    \/ SerFromBytes

SpecSerde == InitSerde /\ [][NextSerde]_vars

\* sequences of byte buffers are serialized and read back
SpecSerdeSeq == InitSerdeSeq /\ [][NextSerde]_vars

\* the tickets of the channel-based server and its write loop
NextTicket ==
    \/ \E i \in TicketIds : TicketNew(i)
    \/ DispatchClose
    \/ \E i \in TicketIds, serOk \in BOOLEAN : TicketOk(i, serOk)
    \/ \E i \in TicketIds, serOk \in BOOLEAN : TicketError(i, serOk)
    \/ \E i \in TicketIds : TicketSend(i)
    \/ \E i \in TicketIds : TicketDrop(i)
    \/ \E i \in TicketIds : TicketDropSend(i)
    \/ WlRecvReply
    \/ WlWrite

SpecTicket == Init /\ [][NextTicket]_vars

(***************************************************************************)
(* What the output stream shows.                                           *)
(***************************************************************************)
\* a partial write of a request frame that carries `_ask`
IsTagged(ch) == "_command" \in DOMAIN ch.box /\ "_ask" \in DOMAIN ch.box

\* the `_ask` tags under which task c's current call is on the output stream
CallTags(c) ==
    {wire[j].box["_ask"] :
        j \in {k \in DOMAIN wire : /\ wire[k].id = <<"call", c, callNo[c]>>
                                   /\ IsTagged(wire[k])}}

\* the completed response frames on the output stream that carry tag
ResponsesTo(tag) ==
    {j \in DOMAIN wire :
        /\ wire[j].part = FrameParts
        /\ \/ "_answer" \in DOMAIN wire[j].box /\ wire[j].box["_answer"] = tag
           \/ "_error" \in DOMAIN wire[j].box /\ wire[j].box["_error"] = tag}

\* the first partial writes of the tagged requests, in stream order
TaggedStarts == SelectSeq(wire, LAMBDA ch : IsTagged(ch) /\ ch.part = 1)

\* "0123456789abcdef", and the lowercase hexadecimal text of k < 256
LowerHexDigits ==
    <<48, 49, 50, 51, 52, 53, 54, 55, 56, 57, 97, 98, 99, 100, 101, 102>>
LowerHex(k) ==
    IF k < 16 THEN <<LowerHexDigits[k + 1]>>
    ELSE <<LowerHexDigits[(k \div 16) + 1], LowerHexDigits[(k % 16) + 1]>>

\* tag t is a text of key v that from_str_radix reads: the lowercase
\* hexadecimal of v, possibly after a '+' or a '0'
Spells(t, v) == \E pre \in {<<>>, <<43>>, <<48>>} : t = pre \o LowerHex(v)

\* the reply commands ticket i has handed to the write loop
RepliesOf(i) ==
    Cardinality({j \in DOMAIN writeQ : writeQ[j].id = <<"ticket", i, 0>>})
        + Cardinality({j \in DOMAIN dequeued : dequeued[j] = <<"ticket", i, 0>>})

(***************************************************************************)
(* C1 .. C10.                                                              *)
(***************************************************************************)
\* C1: with a peer that answers each reply-expecting request once, with the
\* request's own tag, at any time after the first byte of the request is
\* on the output stream, the read loop never fails with UnmatchedReply.
C1_NoUnmatchedReply == rlRes /= "UnmatchedReply"

\* the peer's response has been routed while the write loop was still
\* writing the request it answers
C1_AnsweredAtOnce ==
    \E c \in Tasks :
        /\ IsSome(delivered[c])
        /\ wl = "output"
        /\ wlOut.id = <<"call", c, 1>>
        /\ rl = "select"

\* C2: the reply-map entry of a call_remote request is inserted before the
\* write loop writes any byte of the request: every tag on the output
\* stream is a key the read loop has inserted.
C2_EntryBeforeBytes ==
    \A t \in TagsOnWire : IsSome(TagKey(t)) /\ Unwrap(TagKey(t)) \in inserted

C4_ExactlyOneResponse ==
    \A i \in Inbound :
        (IsSome(handlers[i].req) /\ IsSome(Unwrap(handlers[i].req).tag)) =>
            LET n == Cardinality(ResponsesTo(Unwrap(Unwrap(handlers[i].req).tag)))
            IN  /\ n <= 1
                /\ (rl = "done" /\ wl = "done") => n = 1

\* C5: a ReplyTicket hands exactly one reply command to the write loop
\* over its lifetime: never two, and one once ok() or error() has returned
\* or the dropped ticket's task has sent.
C5_ExactlyOneReply ==
    \A i \in TicketIds :
        /\ RepliesOf(i) <= 1
        /\ tickets[i].st \in {"returned", "dropped"} => RepliesOf(i) = 1

\* C6: the k-th reply-expecting request on the output stream carries the
\* lowercase hexadecimal of k as its `_ask`, whatever replies and untagged
\* requests are written in between; no two requests carry the same tag.
C6_TagIsHexOfK ==
    LET ts == TaggedStarts
    IN  /\ \A k \in DOMAIN ts : ts[k].box["_ask"] = LowerHex(k)
        /\ \A j, k \in DOMAIN ts :
              ts[j].box["_ask"] = ts[k].box["_ask"] => j = k

\* all the tagged requests of the sequential client are on the output
\* stream (the last tags are "f", "10" and "11"), with an untagged request
\* and a reply among them
C6_SeventeenTags ==
    /\ Len(TaggedStarts) >= MaxSeqCalls
    /\ \E j \in DOMAIN wire :
          /\ "_command" \in DOMAIN wire[j].box
          /\ ~IsTagged(wire[j])
          /\ \E k \in DOMAIN wire : k > j /\ IsTagged(wire[k])
    /\ \E j \in DOMAIN wire :
          /\ "_answer" \in DOMAIN wire[j].box
          /\ \E k \in DOMAIN wire : k > j /\ IsTagged(wire[k])

\* C7: the output stream is the frames of the dequeued commands, whole and
\* in dequeue order: the partial writes of one frame are adjacent, and the
\* k-th frame is that of the k-th command the write loop received.
C7_WireOrder ==
    \A j \in DOMAIN wire :
        /\ wire[j].part = ((j - 1) % FrameParts) + 1
        /\ wire[j].part > 1 =>
              wire[j].id = wire[j - 1].id /\ wire[j].box = wire[j - 1].box
        /\ wire[j].part = 1 =>
              /\ ((j - 1) \div FrameParts) + 1 \in DOMAIN dequeued
              /\ wire[j].id = dequeued[((j - 1) \div FrameParts) + 1]

\* a request frame follows a handler's reply frame on the stream and is
\* half written while another command waits in the channel
C7_TwoFramesThirdQueued ==
    /\ Len(wire) > FrameParts
    /\ wire[1].id[1] = "reply"
    /\ wlOut.id[1] = "call"
    /\ wlOut.part = 1
    /\ writeQ /= <<>>

\* C8: a response removes the reply-map entry whose key its tag spells in
\* hexadecimal and delivers the response to that entry's slot; a tag that
\* spells no key of the map ends the read loop with UnmatchedReply.  A
\* removed entry does not come back and a completed slot is not completed
\* again.
C8_ResponseRouting ==
    [][/\ \A t \in PeerTags :
            RlRecv(PeerAnswer(t)) =>
                LET ks == {k \in DOMAIN reply_map : Spells(t, k)}
                IN  IF ks = {}
                    THEN /\ rl' = "done"
                         /\ rlRes' = "UnmatchedReply"
                         /\ delivered' = delivered
                    ELSE \E k \in ks :
                            /\ reply_map' = Remove(reply_map, k)
                            /\ delivered' = [delivered EXCEPT ![reply_map[k]] =
                                  Some([ok |-> TRUE,
                                        fields |-> [x \in {"total"} |-> t]])]
                            /\ rl' = rl
       /\ \A k \in inserted :
            k \notin DOMAIN reply_map => k \notin DOMAIN reply_map'
       /\ \A c \in Tasks :
            IsSome(delivered[c]) => delivered'[c] = delivered[c]
      ]_vars

\* a response was delivered under "01" or "+1" to the call whose request
\* carried "1", and a later response ended the read loop
C8_SecondResponse ==
    /\ rlRes = "UnmatchedReply"
    /\ \E c \in Tasks :
          /\ IsSome(delivered[c])
          /\ Unwrap(delivered[c]).ok
          /\ Unwrap(delivered[c]).fields["total"] \in {<<48, 49>>, <<43, 49>>}
          /\ CallTags(c) = {ToHex(1)}

\* C9: once shutdown() has been called, join() returns Ok.
C9_JoinReturnsOk ==
    (handle.shutdownCalled /\ handle.join = "returned") => handle.joinRes = "Ok"

\* C10: when the connection has ended, no call_remote without a response
\* is left waiting: its Sender is gone, wherever it was, so the call can
\* complete, and a call that completes without a response gets SendError or
\* RecvError.
C10_CallsReleased ==
    /\ rl = "done" => (reply_map = EmptyBox /\ expectQ = <<>>)
    /\ \A c \in Tasks :
          /\ (rl = "done" /\ wl = "done" /\ callPc[c] = "wait")
                => ENABLED CallComplete(c)
          /\ callRes[c].kind = "Err" => callRes[c].err \in {"SendError", "RecvError"}

\* both loops have ended; one call had its entry in the reply-map, another
\* had not got that far, and both completed with RecvError
C10_TwoReleased ==
    /\ rl = "done"
    /\ wl = "done"
    /\ Cardinality(inserted) = 1
    /\ \E c, d \in Tasks :
          /\ c /= d
          /\ callRes[c] = ErrResult("RecvError")
          /\ callRes[d] = ErrResult("RecvError")

(***************************************************************************)
(* C11 .. C20.                                                             *)
(***************************************************************************)
\* C11: every command that is in the write channel ahead of the read
\* loop's Exit (so queued when the read loop handled the shutdown signal)
\* is written before the write loop returns: the write loop never returns
\* while a command precedes Exit in the channel.
C11_QueuedWritten ==
    [][(wl /= "done" /\ wl' = "done") =>
          ~\E i, j \in DOMAIN writeQ :
               i < j /\ writeQ[j].type = "Exit" /\ writeQ[i].type /= "Exit"]_vars

\* C12: a step in which the read loop sees the end of the input stream puts
\* Exit in the write channel (or the write loop has already returned), as
\* the shutdown branch does.
C12_EofSendsExit ==
    [][RlEof =>
          \/ WriteRxDropped
          \/ \E i \in DOMAIN writeQ' : writeQ'[i].type = "Exit"]_vars


\* C13: when join() has returned and a loop has terminated with an error,
\* join() returned an error, and it is the error of the loop that failed
\* first.
C13_FirstErrorReturned ==
    (handle.join = "returned" /\ firstErr /= "None") =>
        handle.joinRes = firstErr


\* C14: join() has returned, with Ok or with an error, only when both the
\* read loop and the write loop have terminated.
C14_JoinAfterBothLoops ==
    handle.join = "returned" => (rl = "done" /\ wl = "done")


\* the position of a state on the path Connected, Closing, Closed
StateRank(s) == CASE s = "Connected" -> 0 [] s = "Closing" -> 1 [] s = "Closed" -> 2

\* the number of loops that have terminated
LoopsDone == (IF rl = "done" THEN 1 ELSE 0) + (IF wl = "done" THEN 1 ELSE 0)

\* C15: state() is Connected while neither loop has terminated, Closing
\* when exactly one has, Closed when both have; and no step takes the
\* observed state back to an earlier one.
C15_StateForward ==
    [][/\ StateRank(State) = LoopsDone
       /\ StateRank(State)' = LoopsDone'
       /\ StateRank(State)' >= StateRank(State)]_vars

\* both loops have terminated, one after the other, and state() is Closed
C15_Closed == State = "Closed" /\ rl = "done" /\ wl = "done"


\* the errors of the read path that the protocol defines
ProtocolErrors == {"ConfusedFrame", "IncompleteErrorFrame", "UnmatchedReply", "Codec"}

\* C16: after the read loop has ended on a protocol-level error, a join()
\* that has returned has returned that error, with both loops stopped and
\* state() Closed.
C16_ProtocolErrorReported ==
    (rlRes \in ProtocolErrors /\ handle.join = "returned") =>
        /\ handle.joinRes = rlRes
        /\ State = "Closed"


\* C17: a value that fails to serialize or deserialize is an error of its
\* request only: neither the read loop nor the write loop terminates with a
\* Serde error.
C17_SerdeNotFatal == wlRes /= "Serde" /\ rlRes /= "Serde"


\* task c's call_remote_noreply puts its command in the write channel
NoReplyCalled(c) ==
    /\ callNo'[c] /= callNo[c]
    /\ Len(writeQ') = Len(writeQ) + 1
    /\ ~writeQ'[Len(writeQ')].reply

\* the write loop takes a WriteCmd::Request that has no reply sender
NoReplyTaken ==
    /\ wl = "recv"
    /\ writeQ /= <<>>
    /\ Head(writeQ).type = "Request"
    /\ ~Head(writeQ).reply
    /\ dequeued' /= dequeued

\* the write loop writes a part of the frame of such a request
NoReplyWritten ==
    /\ wl = "output"
    /\ wlCmd.type = "Request"
    /\ ~wlCmd.reply
    /\ wire' /= wire

\* C18: the write loop's handling of a call_remote_noreply command leaves
\* the tag counter, the reply-map and the expect channel unchanged (no
\* registration, no confirmation), and the frame it makes and writes is a
\* Request without `_ask`; the call itself sends the command and returns
\* Ok(()) without a reply channel to wait on.
C18_FireAndForget ==
    [][/\ \A c \in Tasks : NoReplyCalled(c) =>
            /\ seqno' = seqno
            /\ reply_map' = reply_map
            /\ expectQ' = expectQ
            /\ callPc'[c] = "idle"
            /\ delivered'[c] = None
            /\ callRes'[c] = [kind |-> "Unit"]
       /\ NoReplyTaken =>
            /\ seqno' = seqno
            /\ reply_map' = reply_map
            /\ expectQ' = expectQ
            /\ confirm' = confirm
            /\ inserted' = inserted
            /\ wl' = "output"
            /\ "_command" \in DOMAIN wlOut'.box
            /\ "_ask" \notin DOMAIN wlOut'.box
       /\ NoReplyWritten =>
            /\ seqno' = seqno
            /\ reply_map' = reply_map
            /\ expectQ' = expectQ
            /\ "_command" \in DOMAIN wire'[Len(wire')].box
            /\ "_ask" \notin DOMAIN wire'[Len(wire')].box]_vars

\* a call_remote_noreply frame is on the output stream, whole, after a
\* call_remote has taken tag 1
C18_NoReplyOnWire ==
    /\ seqno = 1
    /\ \E j \in DOMAIN wire :
          /\ wire[j].id[1] = "call"
          /\ wire[j].part = FrameParts
          /\ "_command" \in DOMAIN wire[j].box
          /\ "_ask" \notin DOMAIN wire[j].box


\* ticket i was dropped unanswered and its automatic ErrorResponse has not
\* yet been taken by the write loop
DropPending(i) ==
    /\ tickets[i].st \in {"spawned", "dropped"}
    /\ \A j \in DOMAIN dequeued : dequeued[j] /= <<"ticket", i, 0>>

\* C19 as stated: after a ticket is dropped unanswered, the next frame the
\* write loop takes for the output stream is that ticket's ErrorResponse.
C19_NextFrame ==
    [][\A i \in TicketIds :
          (DropPending(i) /\ dequeued' /= dequeued) =>
              dequeued'[Len(dequeued')] = <<"ticket", i, 0>>]_vars

\* C19, amended: the drop of an unanswered ticket sends nothing itself; once
\* the task it spawned has sent, exactly one reply of that ticket has been
\* handed to the write loop, and it is the ErrorResponse with `_error` = t,
\* `_error_code` = UNKNOWN and `_error_description` = "Request dropped
\* without reply", in the channel behind what was queued before it or on
\* the output stream.
C19_AutoErrorQueued ==
    \A i \in TicketIds :
        /\ tickets[i].st = "spawned" => RepliesOf(i) = 0
        /\ tickets[i].st = "dropped" =>
              /\ RepliesOf(i) = 1
              /\ \A j \in DOMAIN writeQ :
                    writeQ[j].id = <<"ticket", i, 0>> => writeQ[j].frame = AutoError(i)
              /\ wlOut.id = <<"ticket", i, 0>> => wlOut.box = AutoError(i)
              /\ \A j \in DOMAIN wire :
                    wire[j].id = <<"ticket", i, 0>> => wire[j].box = AutoError(i)

\* ticket 1 was dropped unanswered, ticket 2 was answered with ok(), and
\* the OkResponse of ticket 2 is on the output stream before the whole
\* ErrorResponse of ticket 1
C19_ErrorAfterOk ==
    /\ tickets[1].st = "dropped"
    /\ tickets[2].res = "Ok"
    /\ \E j, k \in DOMAIN wire :
          /\ j < k
          /\ wire[j].id = <<"ticket", 2, 0>>
          /\ wire[k].id = <<"ticket", 1, 0>>
          /\ wire[k].part = FrameParts
          /\ wire[k].box = AutoError(1)


\* inbound request i has been decoded and carries no `_ask`
Tagless(i) == IsSome(handlers[i].req) /\ ~IsSome(Unwrap(handlers[i].req).tag)

\* a box that is a response: it has `_answer` or `_error`
IsResponse(box) == "_answer" \in DOMAIN box \/ "_error" \in DOMAIN box

\* C20: a decoded inbound request without `_ask` has no reply command in
\* the write channel or in the write loop's hands and no frame on the
\* output stream, whether its handler succeeds or fails; when every decoded
\* inbound request is tagless, no response frame at all is queued or
\* written.
C20_TaglessNoResponse ==
    /\ \A i \in Inbound : Tagless(i) =>
          /\ \A j \in DOMAIN writeQ :
                writeQ[j].type /= "Exit" => writeQ[j].id /= <<"reply", i, 0>>
          /\ \A j \in DOMAIN dequeued : dequeued[j] /= <<"reply", i, 0>>
          /\ wlOut.id /= <<"reply", i, 0>>
          /\ \A j \in DOMAIN wire : wire[j].id /= <<"reply", i, 0>>
    /\ (\A i \in Inbound : IsSome(handlers[i].req) => Tagless(i)) =>
          /\ \A j \in DOMAIN writeQ : writeQ[j].type /= "Reply"
          /\ ~IsResponse(wlOut.box)
          /\ \A j \in DOMAIN wire : ~IsResponse(wire[j].box)

\* the handler of a tagless inbound request has run to its end and been
\* collected by the read loop, while the output stream carried other frames
C20_TaglessHandled ==
    \E i \in Inbound :
        /\ Tagless(i)
        /\ handlers[i].st = "collected"
        /\ wire /= <<>>


(***************************************************************************)
(* C21 .. C30.                                                             *)
(***************************************************************************)
\* the markers among `_command`, `_answer` and `_error` that box has
Markers(box) == DOMAIN box \cap {"_command", "_answer", "_error"}

\* C21: the classification of a box is decided by its markers.  Exactly
\* `_command`: a Request with the value of `_command`, whose tag is the
\* value of `_ask` if present and absent otherwise.  Exactly `_answer`: an
\* OkResponse with that tag.  Exactly `_error`: an ErrorResponse when
\* `_error_code` and `_error_description` are both present, otherwise
\* IncompleteErrorFrame.  No marker, or more than one: ConfusedFrame.
\* Every box has a result.
C21_Classification ==
    IsSome(frameRes) =>
        LET r == Unwrap(frameRes)
            m == Markers(rawFrame)
        IN  /\ m = {"_command"} =>
                  /\ r.ok /\ r.type = "Request"
                  /\ r.command = rawFrame["_command"]
                  /\ r.tag = IF "_ask" \in DOMAIN rawFrame
                             THEN Some(rawFrame["_ask"]) ELSE None
            /\ m = {"_answer"} =>
                  /\ r.ok /\ r.type = "Response"
                  /\ r.response.ok
                  /\ r.tag = rawFrame["_answer"]
            /\ m = {"_error"} =>
                  IF {"_error_code", "_error_description"} \subseteq DOMAIN rawFrame
                  THEN /\ r.ok /\ r.type = "Response"
                       /\ ~r.response.ok
                       /\ r.tag = rawFrame["_error"]
                       /\ r.response.code = rawFrame["_error_code"]
                       /\ r.response.description = rawFrame["_error_description"]
                  ELSE ~r.ok /\ r.err = "IncompleteErrorFrame"
            /\ Cardinality(m) /= 1 => ~r.ok /\ r.err = "ConfusedFrame"

\* a box with `_error` and `_error_code` but no `_error_description` has
\* been classified
C21_IncompleteError ==
    /\ IsSome(frameRes)
    /\ Markers(rawFrame) = {"_error"}
    /\ "_error_code" \in DOMAIN rawFrame
    /\ "_error_description" \notin DOMAIN rawFrame
    /\ Unwrap(frameRes).err = "IncompleteErrorFrame"


\* the stream has been read to its end and decoded without error
CodecDone == codecPc = "stream" /\ stream = <<>> /\ ~readable /\ ~decErr

\* C22: for every valid box, decoding its encoding yields the box, and the
\* decoder has consumed exactly the encoded bytes: once the whole stream
\* has been fed and decoded, the frames returned are the boxes sent and
\* nothing is left in the buffer or in the decoder.
C22_RoundTrip ==
    CodecDone => (decOut = codecIn /\ buf = <<>> /\ dec = DecNew(codecV))


\* a byte string read as length-prefixed segments, one after the other
RECURSIVE Segments(_)
Segments(bytes) ==
    IF Len(bytes) < AMP_LENGTH_SIZE THEN <<>>
    ELSE LET n == FromBeBytes(Take(bytes, AMP_LENGTH_SIZE))
             rest == Drop(bytes, AMP_LENGTH_SIZE)
         IN  <<Take(rest, n)>> \o Segments(Drop(rest, n))

\* the number of segments the large-value law gives a value of length l:
\* l / AMP_VALUE_LIMIT full ones and the terminator, which is the rounded-up
\* quotient, and one more when l is a multiple of AMP_VALUE_LIMIT
LawSegments(l) == l \div AMP_VALUE_LIMIT + 1

\* the V2 values of AMP_VALUE_LIMIT bytes and more among the boxes sent
LargeValues ==
    {codecIn[f][p][2] : <<f, p>> \in
        {fp \in (1..Len(codecIn)) \X (1..MaxPairs) :
            /\ fp[2] <= Len(codecIn[fp[1]])
            /\ Len(codecIn[fp[1]][fp[2]][2]) >= AMP_VALUE_LIMIT}}

\* C23: in V2 a value of AMP_VALUE_LIMIT bytes or more is emitted as full
\* segments followed by one terminator segment shorter than
\* AMP_VALUE_LIMIT (empty when the length is a multiple of
\* AMP_VALUE_LIMIT), ceil(L / AMP_VALUE_LIMIT) segments and one more for a
\* multiple.
C23_LargeValueLaw ==
    (codecPc = "stream" /\ codecV = "V2") =>
        \A value \in LargeValues :
            LET segs == Segments(PushLongValue("V2", value).bytes)
            IN  /\ Len(segs) = LawSegments(Len(value))
                /\ \A i \in 1..(Len(segs) - 1) : Len(segs[i]) = AMP_VALUE_LIMIT
                /\ Len(segs[Len(segs)]) < AMP_VALUE_LIMIT


\* all the bytes sent, and those of them the reader has read
Sent == ToBytesAll(codecV, codecIn)
Fed == Take(Sent, Len(Sent) - Len(stream))

\* Dec::decode called on one buffer until it returns no frame, as
\* FramedRead calls it: the frames, the decoder and the buffer at the end
RECURSIVE DecodeAll(_, _, _, _)
DecodeAll(v, d, b, out) ==
    LET r == DecodeBuf(v, d, b)
    IN  IF r.res = "Some" THEN DecodeAll(v, r.dec, r.buf, Append(out, r.item))
        ELSE [res |-> r.res, dec |-> r.dec, buf |-> r.buf, out |-> out]

\* the decoder has said it needs more bytes
NeedMore == codecPc = "stream" /\ ~readable /\ ~decErr

\* C24 as stated: a decode call that returns need-more-bytes has consumed
\* nothing from the buffer.
C24_NoneConsumesNothing ==
    [][(readable /\ ~readable' /\ ~decErr') => buf' = buf]_vars

\* C24: the decoder is resumable.  When a decode call returns
\* need-more-bytes, the frames returned so far, the decoder's state and the
\* bytes left in the buffer are those of decoding all the bytes read so far
\* in one piece: the bytes it consumed are kept in its state, none is lost,
\* and however the stream is split the same boxes come out.
C24_Resumable ==
    NeedMore =>
        LET whole == DecodeAll(codecV, DecNew(codecV), Fed, <<>>)
        IN  /\ whole.res = "None"
            /\ decOut = whole.out
            /\ dec = whole.dec
            /\ buf = whole.buf

\* the input ended in the middle of a frame, after a frame was returned:
\* the decoder holds a pair of the unfinished frame and more bytes are to come
C24_MidFrame ==
    /\ NeedMore
    /\ stream /= <<>>
    /\ decOut /= <<>>
    /\ dec.frame /= <<>>
    /\ dec.state = "Value"


\* the number of segments the value at the head of segs takes on the wire:
\* one, and in V2 the segments after each full one
RECURSIVE ValueSegs(_, _)
ValueSegs(v, segs) ==
    IF v = "V2" /\ Len(segs) > 1 /\ Len(segs[1]) = AMP_VALUE_LIMIT
    THEN 1 + ValueSegs(v, Tail(segs))
    ELSE 1

RECURSIVE Concat(_)
Concat(segs) == IF segs = <<>> THEN <<>> ELSE segs[1] \o Concat(Tail(segs))

\* the wire format read off a sequence of segments: a frame is key and
\* value segments in turn up to an empty key.  The frames in order, each
\* with its pairs in order, and whether the segments end with a frame's end
RECURSIVE WireFrames(_, _, _, _)
WireFrames(v, segs, frame, out) ==
    IF segs = <<>> THEN [frames |-> out, whole |-> frame = <<>>]
    ELSE IF segs[1] = <<>>
    THEN WireFrames(v, Tail(segs), <<>>, Append(out, frame))
    ELSE IF Len(segs) = 1 THEN [frames |-> out, whole |-> FALSE]
    ELSE LET n == ValueSegs(v, Tail(segs))
             ended == ~(v = "V2" /\ Len(segs[n + 1]) = AMP_VALUE_LIMIT)
             value == Concat(SubSeq(segs, 2, n + 1))
         IN  IF ~ended THEN [frames |-> out, whole |-> FALSE]
             ELSE WireFrames(v, Drop(segs, n + 1),
                             Append(frame, <<segs[1], value>>), out)

\* the bytes the decoder has taken out of the buffer when n are left in it
Consumed(n) == Take(Sent, Len(Fed) - n)

\* C25: when the decoder returns a box it is back in its initial state (state
\* Key, no pending key, no accumulated pairs), and the bytes it has
\* consumed are exactly those of the frames returned so far, up to the end
\* of this one, their pairs in wire order: the next frame on the stream is
\* decoded from its first byte by a decoder as good as new.
C25_FrameBoundary ==
    [][Len(decOut') > Len(decOut) =>
          /\ dec' = DecNew(codecV)
          /\ \A left \in {Len(buf')} :
                LET parsed == WireFrames(codecV, Segments(Consumed(left)),
                                         <<>>, <<>>)
                IN  parsed.whole /\ parsed.frames = decOut']_vars

\* a box of two pairs with different keys has been returned, and the box
\* after it on the same stream
C25_TwoFrames ==
    /\ Len(decOut) = 2
    /\ Len(decOut[1]) = 2
    /\ decOut[1][1][1] /= decOut[1][2][1]
    /\ dec = DecNew(codecV)
    /\ buf = <<>>


\* C26: an AmpList is encoded as its items' frames one after the other (the
\* pairs of each item and its 0x0000), with no length before them, and
\* from_bytes of those bytes gives the same items in the same order, for
\* lists of any length, the empty list too.
C26_AmpListRoundTrip ==
    /\ serPc \in {"encoded", "decoded"} => serBytes = ToBytesAll(serV, serVal)
    /\ serPc = "decoded" => serRes = Some(DeOk(serVal, <<>>))


\* from_bytes has failed with RemainingBytes
RemainingBytes ==
    /\ serRes /= None
    /\ ~Unwrap(serRes).ok
    /\ Unwrap(serRes).err = "RemainingBytes"

\* C27: from_bytes fails with RemainingBytes whenever bytes are left after
\* the value of the type asked for has been decoded, and whenever, inside
\* it, the bytes of a key or of a value were not used up by what was
\* decoded from them.
C27_RemainingBytes ==
    serRes /= None =>
        LET d == Deserialize(serTy, serBytes)
        IN  /\ (d.ok /\ d.rest /= <<>>) => RemainingBytes
            /\ d.residue => RemainingBytes

\* a map with a pair was decoded and another frame follows it
C27_TrailingFrame ==
    /\ serPc = "done"
    /\ serTy = TyMap(TyBytes, TyBytes)
    /\ Deserialize(serTy, serBytes).ok
    /\ Deserialize(serTy, serBytes).val /= <<>>
    /\ Len(Deserialize(serTy, serBytes).rest) >= AMP_LENGTH_SIZE
    /\ RemainingBytes


\* C28: once the application has dropped its dispatch channel, the read
\* loop keeps running, and every tagged request that arrives is dropped
\* with its ticket at once: the automatic ErrorResponse (`_error` = its
\* tag, code UNKNOWN, description "Request dropped without reply") is what
\* the spawned task hands to the write loop for it.
C28_ClosedDispatch ==
    [][\A i \in TicketIds :
          /\ (dispatch.rx = "closed" /\ tickets[i].st = "none"
                  /\ tickets'[i].st /= "none") =>
                /\ dispatch'.read_loop = "running"
                /\ tickets'[i].st = "spawned"
                /\ tickets'[i].frame = AutoError(i)
          /\ (i \in dispatch.lost /\ tickets[i].st = "spawned"
                  /\ tickets'[i].st /= "spawned") =>
                /\ writeQ' = Append(writeQ, [type |-> "Reply",
                                             id |-> <<"ticket", i, 0>>,
                                             frame |-> AutoError(i)])
                /\ tickets'[i].st = "dropped"]_vars

\* the application answered request 1 and closed its dispatch channel;
\* request 2 came after that and its automatic ErrorResponse is on the
\* output stream, whole
C28_AnsweredAfterClose ==
    /\ dispatch.rx = "closed"
    /\ dispatch.read_loop = "running"
    /\ dispatch.lost = {2}
    /\ tickets[1].res = "Ok"
    /\ \E k \in DOMAIN wire :
          /\ wire[k].id = <<"ticket", 2, 0>>
          /\ wire[k].part = FrameParts
          /\ wire[k].box = AutoError(2)


\* task c's reply-expecting request has bytes on the output stream and its
\* response has not been processed
Unanswered(c) ==
    /\ CallTags(c) /= {}
    /\ callPc[c] = "wait"
    /\ delivered[c] = None

\* C29: while the read loop is running, every reply-expecting request with
\* bytes on the output stream and no response processed yet has exactly
\* one entry in the reply-map, under the key its tag spells; so the entry
\* is there until the response is processed or the read loop ends.
C29_OneEntry ==
    rl /= "done" =>
        \A c \in Tasks :
            Unanswered(c) =>
                /\ \A t \in CallTags(c) :
                      /\ IsSome(TagKey(t))
                      /\ Unwrap(TagKey(t)) \in DOMAIN reply_map
                      /\ reply_map[Unwrap(TagKey(t))] = c
                /\ Cardinality({k \in DOMAIN reply_map : reply_map[k] = c}) = 1

\* the first request has been answered and its entry is gone; the second
\* is written in full, unanswered, and its entry is the only one
C29_SecondWaits ==
    /\ rl = "select"
    /\ \E c, d \in Tasks :
          /\ CallTags(c) = {ToHex(1)}
          /\ IsSome(delivered[c])
          /\ CallTags(d) = {ToHex(2)}
          /\ Unanswered(d)
          /\ DOMAIN reply_map = {2}
          /\ reply_map[2] = d
          /\ \E k \in DOMAIN wire :
                wire[k].id = <<"call", d, callNo[d]>> /\ wire[k].part = FrameParts


\* the errors a dispatched handler can finish with
HandlerErrors == {"InvalidUtf8", "Serde", "SendError"}

\* C30: when the read loop takes a handler that finished with an error
\* (the `_command` is not UTF-8, the reply cannot be serialized, the write
\* channel is closed) out of its dispatched requests, it stops and returns
\* that error.
C30_HandlerErrorReturned ==
    \A i \in Inbound :
        handlers[i].st = "failed" =>
            /\ handlers[i].res \in HandlerErrors
            /\ rl = "done"
            /\ rlRes = handlers[i].res

\* a handler failed with SendError because the write loop had ended, and
\* the read loop returned SendError
C30_SendErrorReturned ==
    \E i \in Inbound :
        /\ handlers[i].st = "failed"
        /\ handlers[i].res = "SendError"
        /\ wl = "done"
        /\ rlRes = "SendError"


(***************************************************************************)
(* C31 .. C39                                                              *)
(***************************************************************************)
\* a byte string read as length-prefixed segments, up to the last one that
\* is whole
RECURSIVE CompleteSegments(_)
CompleteSegments(bytes) ==
    IF Len(bytes) < AMP_LENGTH_SIZE THEN <<>>
    ELSE LET n == FromBeBytes(Take(bytes, AMP_LENGTH_SIZE))
             rest == Drop(bytes, AMP_LENGTH_SIZE)
         IN  IF Len(rest) < n THEN <<>>
             ELSE <<Take(rest, n)>> \o CompleteSegments(Drop(rest, n))

\* nothing read yet
NothingRead == [frames |-> <<>>, frame |-> <<>>, key |-> <<>>, vsegs |-> <<>>]

\* what a sequence of segments says by the wire format of version v: the
\* frames ended, the pairs of the frame under way, the current key (<<>>
\* when a key is expected) and the value segments read for it so far
RECURSIVE ReadSoFar(_, _, _)
ReadSoFar(v, segs, acc) ==
    IF segs = <<>> THEN acc
    ELSE LET s == segs[1]
             all == Append(acc.vsegs, s)
         IN  ReadSoFar(v, Tail(segs),
                 IF acc.key = <<>>
                 THEN IF s = <<>>
                      THEN [acc EXCEPT !.frames = Append(@, acc.frame),
                                       !.frame = <<>>]
                      ELSE [acc EXCEPT !.key = s]
                 ELSE IF v = "V2" /\ Len(s) = AMP_VALUE_LIMIT
                 THEN [acc EXCEPT !.vsegs = all]
                 ELSE [acc EXCEPT !.frame = Append(@, <<acc.key, Concat(all)>>),
                                  !.key = <<>>, !.vsegs = <<>>])

\* C31: a V1 decoder is never in ValueCont and takes a value segment of
\* AMP_VALUE_LIMIT bytes as a whole value.  A V2 decoder is in ValueCont
\* exactly when it has read value segments for the current key and each of
\* them was AMP_VALUE_LIMIT bytes long; it then holds the key and the
\* segments joined, and the first shorter segment makes it emit the key
\* with all the segments joined and expect a key again.
C31_ValueCont ==
    (codecPc = "stream" /\ codecV \in {"V1", "V2"}) =>
        \A left \in {Len(buf)} :
            LET r == ReadSoFar(codecV, CompleteSegments(Consumed(left)),
                               NothingRead)
            IN  /\ codecV = "V1" => dec.state /= "ValueCont"
                /\ codecV = "V2" =>
                      (dec.state = "ValueCont" <=>
                          /\ r.vsegs /= <<>>
                          /\ \A i \in 1..Len(r.vsegs) :
                                Len(r.vsegs[i]) = AMP_VALUE_LIMIT)
                /\ dec.state = "ValueCont" =>
                      dec.key = r.key /\ dec.value = Concat(r.vsegs)
                /\ dec.state = "Key" <=> r.key = <<>>
                /\ decOut = r.frames
                /\ dec.frame = r.frame

\* a V2 decoder has emitted a key with a value of two full segments and a
\* shorter one, and expects a key
C31_LongValueEmitted ==
    /\ codecV = "V2"
    /\ decOut /= <<>>
    /\ decOut[1] /= <<>>
    /\ Len(decOut[1][1][2]) = 2 * AMP_VALUE_LIMIT + 1
    /\ dec.state = "Key"



\* C32: the two loops never block each other: in no reachable state does
\* the write loop wait for the confirmation of a registration while the
\* read loop waits to send WriteCmd::Exit on the full write channel.
C32_NoLoopDeadlock ==
    ~(/\ wl = "confirm"
      /\ confirm = "pending"
      /\ rl = "sendExit"
      /\ Len(writeQ) = QueueDepth)



\* C33: once the write loop has terminated, for whatever reason, the read
\* loop terminates too (at the latest when it sees the expect channel
\* closed), and the connection is Closed.
C33_ReadLoopFollows ==
    (wl = "done") ~> (rl = "done" /\ State = "Closed")

\* the output stream failed under the write loop while the Handle had not
\* asked for a shutdown; the read loop has ended without an error and the
\* connection is Closed
C33_ClosedAfterWriteError ==
    /\ wlRes = "IO"
    /\ handle.shutdown = "open"
    /\ rl = "done"
    /\ rlRes = "Ok"
    /\ State = "Closed"



\* C34: when the response to a registered call arrives after the caller
\* has abandoned the call, the read loop does not discard it: it stops
\* with InternalError, the error of the failed send to the caller, and
\* nothing is delivered.
C34_AbandonedCallFails ==
    [][\A t \in answered' \ answered :
          LET k == TagKey(t)
          IN  (/\ IsSome(k)
               /\ Unwrap(k) \in DOMAIN reply_map
               /\ callPc[reply_map[Unwrap(k)]] = "abandoned")
              => /\ rl' = "done"
                 /\ rlRes' = "InternalError"
                 /\ delivered' = delivered]_vars

\* a caller abandoned its call after the registration, the peer answered
\* the request, and the read loop has returned InternalError
C34_InternalError ==
    \E c \in Tasks :
        /\ callPc[c] = "abandoned"
        /\ delivered[c] = None
        /\ inserted /= {}
        /\ answered /= {}
        /\ rl = "done"
        /\ rlRes = "InternalError"



\* C35: once the read loop has terminated, the write loop still takes the
\* commands that are queued or that the remaining senders queue: a reply
\* or a request without reply sender is made into a frame and written to
\* the end, but the first request with a reply sender ends the write loop
\* with SendError without a byte written, and its caller, whose reply
\* sender is dropped with the command, gets RecvError.
C35_WriteLoopAfterReadLoop ==
    [][rl = "done" =>
          /\ (wl = "recv" /\ Len(dequeued') > Len(dequeued)) =>
                LET cmd == Head(writeQ)
                IN  IF cmd.type = "Request" /\ cmd.reply
                    THEN /\ wl' = "done"
                         /\ wlRes' = "SendError"
                         /\ wire' = wire
                         /\ delivered'[cmd.task] = None
                         /\ ~SenderAlive(cmd.task)'
                    ELSE /\ wl' = "output"
                         /\ wlOut'.id = cmd.id
                         /\ wlRes' = "None"
          /\ (wl = "output" /\ wlOut' /= wlOut) =>
                /\ wire' = Append(wire, [wlOut EXCEPT !.part = @ + 1])
                /\ wl' = IF wlOut.part + 1 = FrameParts THEN "recv" ELSE "output"
          /\ \A c \in Tasks :
                (callPc[c] = "wait" /\ callPc'[c] = "idle" /\ delivered[c] = None)
                    => callRes'[c] = ErrResult("RecvError")]_vars

\* the peer closed the stream and the read loop ended; the write loop
\* wrote the request without reply that task 2 had queued, then took task
\* 1's call and ended with SendError, and task 1's call returned RecvError
C35_SendErrorAfterFrame ==
    /\ rl = "done"
    /\ rlRes = "Ok"
    /\ handle.shutdown = "open"
    /\ dequeued = << <<"call", 2, 1>>, <<"call", 1, 1>> >>
    /\ \E k \in DOMAIN wire :
          wire[k].id = <<"call", 2, 1>> /\ wire[k].part = FrameParts
    /\ wl = "done"
    /\ wlRes = "SendError"
    /\ inserted = {}
    /\ callRes[1] = ErrResult("RecvError")



\* C36: when the Handle is dropped without shutdown(), the read loop sees
\* its shutdown receiver complete, as it does after shutdown(), and leaves
\* its select loop by the shutdown branch: whenever the shutdown sender
\* has sent its signal or has been dropped, the read loop comes to leave
\* the loop, and then it has put WriteCmd::Exit on the write channel, is
\* about to, or has found the channel closed.
C36_DropStopsReadLoop ==
    /\ (handle.join = "dropped") ~> (rl /= "select")
    /\ (handle.shutdown = "fired") ~> (rl /= "select")
    /\ [][(rl = "select" /\ rl' /= "select") =>
             /\ handle.shutdown \in {"fired", "closed"}
             /\ \/ rl' = "sendExit" /\ writeQ' = writeQ
                \/ /\ rl' = "done" /\ rlRes' = "Ok"
                   /\ writeQ' = Append(writeQ, [type |-> "Exit"])
                \/ rl' = "done" /\ rlRes' = "SendError" /\ wl = "done"]_vars

\* the Handle was dropped while shutdown() had not been called; the read
\* loop has left its loop with Ok and the write loop has taken the Exit it
\* sent
C36_DroppedAndStopped ==
    /\ handle.join = "dropped"
    /\ ~handle.shutdownCalled
    /\ handle.shutdown = "closed"
    /\ rl = "done"
    /\ rlRes = "Ok"
    /\ wl = "done"
    /\ wlRes = "Ok"



\* C37: for every sequence of byte buffers, from_bytes of its to_bytes
\* (each element after its two-byte length) is the sequence itself, the
\* empty sequence and the sequences that end in an empty element included.
C37_SeqRoundTrip ==
    (serTy.t = "Seq" /\ serPc = "decoded") =>
        serRes = Some(DeOk(serVal, <<>>))



\* C38: the write loop never waits for ever for the confirmation of a
\* registration: the wait at confirm_rx.await always ends, by the
\* confirmation or, when the read loop terminates with the registration
\* still queued, by the confirmation sender being dropped, and the write
\* loop goes on.
C38_ConfirmWaitEnds ==
    (wl = "confirm") ~> (wl /= "confirm")



\* C39: at most one registration is on its way from the write loop to the
\* read loop at any time, and it is the one the write loop waits for; as
\* long as the write loop waits for the confirmation it writes nothing to
\* the output stream and takes no command from the write channel.
C39_OneRegistration ==
    [][/\ Len(expectQ') <= 1
       /\ expectQ' /= <<>> =>
             /\ wl' = "confirm"
             /\ confirm' = "pending"
             /\ expectQ'[1] = [tag |-> seqno', task |-> wlCmd'.task]
       /\ wl = "confirm" =>
             /\ wire' = wire
             /\ dequeued' = dequeued
             /\ seqno' = seqno
             /\ wl' /= "confirm" => ConfirmReady]_vars

\* the write loop waits for the confirmation of the first call's
\* registration while the second call, which also expects a reply, is at
\* the head of the write channel
C39_SecondCallQueued ==
    /\ wl = "confirm"
    /\ confirm = "pending"
    /\ Len(expectQ) = 1
    /\ seqno = 1
    /\ writeQ /= <<>>
    /\ Head(writeQ).type = "Request"
    /\ Head(writeQ).reply
    /\ wire = <<>>

====
